---- MODULE Spec2Model ----
(***************************************************************************)
(* The system bus (Interconnect) of the rustation emulator:                *)
(* src/src/memory/mod.rs.  Loads and stores are decoded against the        *)
(* address map and routed to RAM, BIOS, the DMA registers, the cache       *)
(* control register and the stubbed peripherals; a store that leaves a DMA *)
(* channel active runs the channel's transfer before it returns.           *)
(*                                                                         *)
(* A 32-bit word is a pair <<hi, lo>> of 16-bit halves (TLC's integers are *)
(* 32-bit signed, and the map holds addresses above 0x7fffffff).  RAM      *)
(* offsets and word counts are plain integers.                             *)
(***************************************************************************)
EXTENDS Integers, Sequences, FiniteSets, TLC

VARIABLES
    ram,            \* Interconnect.ram: byte offset -> non-zero byte (absent = 0)
    bios,           \* Interconnect.bios: byte offset -> non-zero byte (absent = 0)
    dma,            \* Interconnect.dma: channels, control, interrupt
    cache_control,  \* Interconnect.cache_control (the raw u32)
    gp0,            \* words handed to gpu.gp0 by the current bus operation, in order
    gp0_lost,       \* TRUE once the current operation forwarded more than MaxLog words
    ram_writes,     \* <<offset, word>> of each ram.store of the current operation's DMA
    pc,             \* where the caller is: idle, do_dma_block, ll_header, ll_packet, fatal
    xfer,           \* locals of the running do_dma_*: port, addr, remsz, header
    last,           \* the bus operation under way or just returned
    nops,           \* bus operations issued so far
    call,           \* a call of a function of mod map or Addressable: fn, arg, done, ret
    renderer        \* the OpenGL Renderer, with what it was handed and what it drew

vars == <<ram, bios, dma, cache_control, gp0, gp0_lost, ram_writes, pc, xfer, last,
          nops, call, renderer>>

\* Bus operations issued in one run.
MaxOps == 3
\* Words of one operation's gp0 traffic that are recorded.
MaxLog == 6

----------------------------------------------------------------------------
(* 32-bit arithmetic on <<hi, lo>> *)

\* The word of an integer 0 <= n < 2^31.
U32(n) == <<n \div 65536, n % 65536>>

\* The integer of a word below 2^31.
Val(w) == w[1] * 65536 + w[2]

\* u32 wrapping_add
Add32(a, b) ==
    LET lo == a[2] + b[2]
        hi == a[1] + b[1] + (lo \div 65536)
    IN  <<hi % 65536, lo % 65536>>

\* u32 wrapping_sub
Sub32(a, b) ==
    LET lo == a[2] - b[2] + 65536
        hi == a[1] - b[1] - 1 + (lo \div 65536) + 65536
    IN  <<hi % 65536, lo % 65536>>

Lt32(a, b) == a[1] < b[1] \/ (a[1] = b[1] /\ a[2] < b[2])

RECURSIVE BitAnd(_, _)
BitAnd(a, b) ==
    IF a = 0 \/ b = 0 THEN 0
    ELSE (a % 2) * (b % 2) + 2 * BitAnd(a \div 2, b \div 2)

\* u32 &
And32(a, b) == <<BitAnd(a[1], b[1]), BitAnd(a[2], b[2])>>

----------------------------------------------------------------------------
(* mod map *)

\* Range(start, length)
Range(start, length) == [start |-> start, length |-> length]

\* A range test that takes the address behind the last one too.
contains_inclusive_end(r, addr) ==
    IF ~Lt32(addr, r.start)
       /\ ~Lt32(Add32(r.start, U32(r.length)), addr)
    THEN {Val(Sub32(addr, r.start))}
    ELSE {}

\* Range::contains: Some(offset) is {offset}, None is {}.
contains(r, addr) ==
    IF ~Lt32(addr, r.start) /\ Lt32(addr, Add32(r.start, U32(r.length)))
    THEN {Val(Sub32(addr, r.start))}
    ELSE {}

\* A mask table that clears bit 30 of the KSEG2 addresses.
REGION_MASK_kseg2_bit30 ==
    << <<\Hffff, \Hffff>>, <<\Hffff, \Hffff>>, <<\Hffff, \Hffff>>, <<\Hffff, \Hffff>>,
       <<\H7fff, \Hffff>>,
       <<\H1fff, \Hffff>>,
       <<\Hbfff, \Hffff>>, <<\Hbfff, \Hffff>> >>

REGION_MASK ==
    << <<\Hffff, \Hffff>>, <<\Hffff, \Hffff>>, <<\Hffff, \Hffff>>, <<\Hffff, \Hffff>>,
       <<\H7fff, \Hffff>>,
       <<\H1fff, \Hffff>>,
       <<\Hffff, \Hffff>>, <<\Hffff, \Hffff>> >>

mask_region(addr) ==
    LET index == addr[1] \div 8192      \* addr >> 29
    IN  And32(addr, REGION_MASK[index + 1])

\* A RAM range of one megabyte.
RAM_one_megabyte == Range(<<\H0000, \H0000>>, 1024 * 1024)

RAM == Range(<<\H0000, \H0000>>, 2 * 1024 * 1024)
EXPANSION_1 == Range(<<\H1f00, \H0000>>, 512 * 1024)
BIOS == Range(<<\H1fc0, \H0000>>, 512 * 1024)
\* A memory control range that begins one register late.
MEM_CONTROL_from_second == Range(<<\H1f80, \H1004>>, 32)

MEM_CONTROL == Range(<<\H1f80, \H1000>>, 36)
RAM_SIZE == Range(<<\H1f80, \H1060>>, 4)
IRQ_CONTROL == Range(<<\H1f80, \H1070>>, 8)
\* A DMA range that runs into the timers.
DMA_long == Range(<<\H1f80, \H1080>>, \H90)

DMA == Range(<<\H1f80, \H1080>>, \H80)
\* A timer range laid over the RAM size register.
TIMERS_at_ram_size == Range(<<\H1f80, \H1060>>, \H30)

TIMERS == Range(<<\H1f80, \H1100>>, \H30)
GPU == Range(<<\H1f80, \H1810>>, 8)
\* An SPU range of 512 bytes.
SPU_short == Range(<<\H1f80, \H1c00>>, 512)

SPU == Range(<<\H1f80, \H1c00>>, 640)
\* An expansion 2 range of 64 bytes.
EXPANSION_2_short == Range(<<\H1f80, \H2000>>, 64)

EXPANSION_2 == Range(<<\H1f80, \H2000>>, 66)
\* A cache control range of two words.
CACHE_CONTROL_two_words == Range(<<\Hfffe, \H0130>>, 8)

CACHE_CONTROL == Range(<<\Hfffe, \H0130>>, 4)

\* The one element of Some(offset).
Offset(r, addr) == CHOOSE o \in contains(r, addr) : TRUE

----------------------------------------------------------------------------
(* Addressable: u8 and u16 values are integers, u32 values are words *)

AccessWidth == {"Byte", "Halfword", "Word"}

\* AccessWidth as usize: the bytes of one access
WidthBytes(width) ==
    CASE width = "Byte" -> 1
      [] width = "Halfword" -> 2
      [] width = "Word" -> 4

\* A conversion that keeps seven bits of a byte.
from_u32_seven_bits(width, v) ==
    CASE width = "Byte" -> v[2] % 128
      [] width = "Halfword" -> v[2]
      [] width = "Word" -> v

\* Addressable::from_u32: the MSBs are discarded to fit
from_u32(width, v) ==
    CASE width = "Byte" -> v[2] % 256
      [] width = "Halfword" -> v[2]
      [] width = "Word" -> v

\* Addressable::as_u32: the MSBs are padded with 0s
as_u32(width, x) ==
    CASE width = "Byte" -> <<0, x>>
      [] width = "Halfword" -> <<0, x>>
      [] width = "Word" -> x

----------------------------------------------------------------------------
(* Ram and Bios (memory/ram.rs, memory/bios.rs): byte arrays read and      *)
(* written little-endian at the width of the access                        *)

\* Byte i (0 = least significant) of a word.
ByteOf(w, i) ==
    CASE i = 0 -> w[2] % 256
      [] i = 1 -> w[2] \div 256
      [] i = 2 -> w[1] % 256
      [] i = 3 -> w[1] \div 256

MemByte(mem, o) == IF o \in DOMAIN mem THEN mem[o] ELSE 0

\* Ram::load / Bios::load
MemLoad(mem, width, offset) ==
    LET b(i) == IF i < WidthBytes(width) THEN MemByte(mem, offset + i) ELSE 0
    IN  from_u32(width, <<b(3) * 256 + b(2), b(1) * 256 + b(0)>>)

\* Ram::store
MemStore(mem, width, offset, x) ==
    LET w == as_u32(width, x)
        touched == offset .. (offset + WidthBytes(width) - 1)
        new == [o \in DOMAIN mem \cup touched |->
                   IF o \in touched THEN ByteOf(w, o - offset) ELSE mem[o]]
        keep == {o \in DOMAIN new : new[o] # 0}
    IN  [o \in keep |-> new[o]]

\* A memory holding the given 32-bit words at the given word-aligned offsets.
RECURSIVE MemOf(_)
MemOf(words) ==
    IF words = <<>> THEN [o \in {} |-> 0]
    ELSE MemStore(MemOf(Tail(words)), "Word", words[1][1], words[1][2])

----------------------------------------------------------------------------
(* memory/dma.rs: the channel register set and the controller.  The file   *)
(* is not part of the sources at hand; the definitions follow the          *)
(* specification's data model (section 3) and, for the bit positions it    *)
(* does not give, the console's DMA register layout: control bit 0         *)
(* direction, bit 1 step, bits 10:9 sync mode, bit 24 enable, bit 28       *)
(* trigger; block control low half size, high half count.                  *)

\* Port::from_index
Port == <<"MdecIn", "MdecOut", "Gpu", "CdRom", "Spu", "Pio", "Otc">>

from_index(index) == Port[index + 1]

Ports == {Port[i] : i \in 1..7}

\* Channel::new: all-zero registers
ChannelNew ==
    [enable |-> FALSE, direction |-> "ToRam", step |-> "Increment",
     sync |-> "Manual", trigger |-> FALSE,
     base |-> <<0, 0>>, block_size |-> 0, block_count |-> 0]

\* Channel::set_base
set_base(channel, val) == [channel EXCEPT !.base = val]

\* Channel::set_block_control
set_block_control(channel, val) ==
    [channel EXCEPT !.block_size = val[2], !.block_count = val[1]]

\* Channel::block_control
block_control(channel) == <<channel.block_count, channel.block_size>>

\* Channel::set_control
set_control(channel, val) ==
    [channel EXCEPT
        !.direction = IF val[2] % 2 = 1 THEN "FromRam" ELSE "ToRam",
        !.step = IF (val[2] \div 2) % 2 = 1 THEN "Decrement" ELSE "Increment",
        !.sync = CASE (val[2] \div 512) % 4 = 0 -> "Manual"
                   [] (val[2] \div 512) % 4 = 1 -> "Request"
                   [] (val[2] \div 512) % 4 = 2 -> "LinkedList",
        !.enable = (val[1] \div 256) % 2 = 1,
        !.trigger = (val[1] \div 4096) % 2 = 1]

\* Channel::control
control(channel) ==
    <<(IF channel.enable THEN 256 ELSE 0) + (IF channel.trigger THEN 4096 ELSE 0),
      (IF channel.direction = "FromRam" THEN 1 ELSE 0)
      + (IF channel.step = "Decrement" THEN 2 ELSE 0)
      + (CASE channel.sync = "Manual" -> 0
           [] channel.sync = "Request" -> 512
           [] channel.sync = "LinkedList" -> 1024)>>

\* Channel::active
active(channel) ==
    /\ channel.enable
    /\ CASE channel.sync = "Manual" -> channel.trigger
         [] channel.sync = "Request" -> TRUE
         [] channel.sync = "LinkedList" -> TRUE

\* Channel::transfer_size: Some(n) is {n}, None is {}
transfer_size(channel) ==
    CASE channel.sync = "Manual" -> {channel.block_size}
      [] channel.sync = "Request" -> {channel.block_size * channel.block_count}
      [] channel.sync = "LinkedList" -> {}

\* Channel::done
done(channel) == [channel EXCEPT !.enable = FALSE, !.trigger = FALSE]

\* Dma::new
DmaNew ==
    [channels |-> [p \in Ports |-> ChannelNew],
     control |-> <<0, 0>>,
     interrupt |-> <<0, 0>>]

----------------------------------------------------------------------------
(* Interconnect *)

\* The locals of do_dma_block / do_dma_linked_list while no transfer runs.
NoXfer == [port |-> "Gpu", addr |-> <<0, 0>>, remsz |-> 0, header |-> <<0, 0>>]

\* The record of a bus operation as it is issued.
BusOp(op, addr, width, val) ==
    [op |-> op, addr |-> addr, width |-> width, val |-> val,
     fatal |-> FALSE, ret |-> <<0, 0>>, dma |-> "none"]

\* The operation returns to its caller.
Returns(o) == pc' = "idle" /\ last' = o

\* A panic that is swallowed: the operation returns.
Panics_swallowed(o) == pc' = "idle" /\ last' = o

\* panic!
Panics(o) == pc' = "fatal" /\ last' = [o EXCEPT !.fatal = TRUE]

\* gpu.gp0(word), as the bus sees it: the word is handed over, in order
Gp0(word) ==
    IF Len(gp0) < MaxLog
    THEN gp0' = Append(gp0, word) /\ gp0_lost' = gp0_lost
    ELSE gp0' = gp0 /\ gp0_lost' = TRUE

\* addr & 0x1ffffc, as a RAM offset
RamWindow(addr) == Val(And32(addr, <<\H001f, \Hfffc>>))

\* A linked-list transfer that does not look at the port.
do_dma_linked_list_any_port(port, channel, o) ==
    LET addr == And32(channel.base, <<\H001f, \Hfffc>>)
    IN  IF channel.direction = "ToRam"
        THEN Panics([o EXCEPT !.dma = "linked_list"]) /\ xfer' = xfer
        ELSE /\ pc' = "ll_header"
             /\ last' = [o EXCEPT !.dma = "linked_list"]
             /\ xfer' = [port |-> port, addr |-> addr, remsz |-> 0,
                         header |-> <<0, 0>>]

\* Interconnect::do_dma_linked_list, up to the loop
do_dma_linked_list(port, channel, o) ==
    LET addr == And32(channel.base, <<\H001f, \Hfffc>>)
    IN  IF channel.direction = "ToRam"
        THEN Panics([o EXCEPT !.dma = "linked_list"]) /\ xfer' = xfer
        ELSE IF port # "Gpu"
        THEN Panics([o EXCEPT !.dma = "linked_list"]) /\ xfer' = xfer
        ELSE /\ pc' = "ll_header"
             /\ last' = [o EXCEPT !.dma = "linked_list"]
             /\ xfer' = [port |-> port, addr |-> addr, remsz |-> 0,
                         header |-> <<0, 0>>]

\* Interconnect::do_dma_block, up to the loop
do_dma_block(port, channel, o) ==
    IF transfer_size(channel) = {}
    THEN Panics([o EXCEPT !.dma = "block"]) /\ xfer' = xfer
    ELSE /\ pc' = "do_dma_block"
         /\ last' = [o EXCEPT !.dma = "block"]
         /\ xfer' = [port |-> port, addr |-> channel.base,
                     remsz |-> CHOOSE n \in transfer_size(channel) : TRUE,
                     header |-> <<0, 0>>]

\* do_dma that takes every transfer for a block transfer.
do_dma_always_block(port, channel, o) == do_dma_block(port, channel, o)

\* do_dma that leaves the transfer for later and returns to the caller.
do_dma_deferred(port, channel, o) == Returns(o) /\ xfer' = xfer

\* Interconnect::do_dma
do_dma(port, channel, o) ==
    IF channel.sync = "LinkedList"
    THEN do_dma_linked_list(port, channel, o)
    ELSE do_dma_block(port, channel, o)

\* An active test that looks at the enable flag alone.
active_port_if_enabled(port, channel) == IF channel.enable THEN {port} ELSE {}

\* Interconnect::set_dma_reg: `if channel.active() { Some(port) } else { None }`
active_port(port, channel) == IF active(channel) THEN {port} ELSE {}

\* Interconnect::set_dma_reg
set_dma_reg(offset, width, val, o) ==
    IF width # "Word"
    THEN Panics(o) /\ UNCHANGED <<dma, xfer>>
    ELSE
    LET v == as_u32(width, val)
        major == (offset \div 16) % 8       \* (offset & 0x70) >> 4
        minor == offset % 16                \* offset & 0xf
    IN  IF major \in 0..6
        THEN IF minor \notin {0, 4, 8}
             THEN Panics(o) /\ UNCHANGED <<dma, xfer>>
             ELSE LET port == from_index(major)
                      old == dma.channels[port]
                      channel == CASE minor = 0 -> set_base(old, v)
                                   [] minor = 4 -> set_block_control(old, v)
                                   [] minor = 8 -> set_control(old, v)
                  IN  /\ dma' = [dma EXCEPT !.channels[port] = channel]
                      /\ IF active_port(port, channel) # {}
                         THEN do_dma(port, channel, o)
                         ELSE Returns(o) /\ xfer' = xfer
        ELSE CASE minor = 0 ->
                    dma' = [dma EXCEPT !.control = v] /\ Returns(o) /\ xfer' = xfer
               [] minor = 4 ->
                    dma' = [dma EXCEPT !.interrupt = v] /\ Returns(o) /\ xfer' = xfer
               [] OTHER -> Panics(o) /\ UNCHANGED <<dma, xfer>>

\* A store outside every range that is dropped instead.
unhandled_store_dropped(o) == Returns(o) /\ UNCHANGED <<ram, dma, cache_control, xfer>>

\* Interconnect::store, no range matched: panic!("unhandled store32 ...")
unhandled_store(o) == Panics(o) /\ UNCHANGED <<ram, dma, cache_control, xfer>>

\* Interconnect::store
Store(addr, width, val) ==
    /\ pc = "idle"
    /\ nops < MaxOps
    /\ nops' = nops + 1
    /\ call' = call
    /\ renderer' = renderer
    /\ gp0' = <<>>
    /\ gp0_lost' = FALSE
    /\ ram_writes' = <<>>
    /\ bios' = bios
    /\ LET abs_addr == mask_region(addr)
           o == BusOp("store", addr, width, as_u32(width, val))
       IN  IF contains(RAM, abs_addr) # {}
           THEN /\ ram' = MemStore(ram, width, Offset(RAM, abs_addr), val)
                /\ Returns(o)
                /\ UNCHANGED <<dma, cache_control, xfer>>
           ELSE IF contains(IRQ_CONTROL, abs_addr) # {}
           THEN Returns(o) /\ UNCHANGED <<ram, dma, cache_control, xfer>>
           ELSE IF contains(DMA, abs_addr) # {}
           THEN /\ set_dma_reg(Offset(DMA, abs_addr), width, val, o)
                /\ UNCHANGED <<ram, cache_control>>
           ELSE IF contains(GPU, abs_addr) # {}
           THEN Returns(o) /\ UNCHANGED <<ram, dma, cache_control, xfer>>
           ELSE IF contains(TIMERS, abs_addr) # {}
           THEN Returns(o) /\ UNCHANGED <<ram, dma, cache_control, xfer>>
           ELSE IF contains(SPU, abs_addr) # {}
           THEN Returns(o) /\ UNCHANGED <<ram, dma, cache_control, xfer>>
           ELSE IF contains(CACHE_CONTROL, abs_addr) # {}
           THEN IF width # "Word"
                THEN Panics(o) /\ UNCHANGED <<ram, dma, cache_control, xfer>>
                ELSE /\ cache_control' = as_u32(width, val)
                     /\ Returns(o)
                     /\ UNCHANGED <<ram, dma, xfer>>
           ELSE IF contains(MEM_CONTROL, abs_addr) # {}
           THEN LET v == as_u32(width, val)
                    offset == Offset(MEM_CONTROL, abs_addr)
                IN  /\ CASE offset = 0 ->
                              IF v # <<\H1f00, \H0000>> THEN Panics(o) ELSE Returns(o)
                         [] offset = 4 ->
                              IF v # <<\H1f80, \H2000>> THEN Panics(o) ELSE Returns(o)
                         [] OTHER -> Returns(o)
                    /\ UNCHANGED <<ram, dma, cache_control, xfer>>
           ELSE IF contains(RAM_SIZE, abs_addr) # {}
           THEN Returns(o) /\ UNCHANGED <<ram, dma, cache_control, xfer>>
           ELSE IF contains(EXPANSION_2, abs_addr) # {}
           THEN Returns(o) /\ UNCHANGED <<ram, dma, cache_control, xfer>>
           ELSE unhandled_store(o)

\* A register read that answers the interrupt register with the control
\* register.
dma_reg_one_global(offset, width) ==
    IF width # "Word"
    THEN {}
    ELSE
    LET major == (offset \div 16) % 8
        minor == offset % 16
    IN  IF major \in 0..6
        THEN LET channel == dma.channels[from_index(major)]
             IN  CASE minor = 0 -> {from_u32(width, channel.base)}
                   [] minor = 4 -> {from_u32(width, block_control(channel))}
                   [] minor = 8 -> {from_u32(width, control(channel))}
                   [] OTHER -> {}
        ELSE CASE minor = 0 -> {from_u32(width, dma.control)}
               [] minor = 4 -> {from_u32(width, dma.control)}
               [] OTHER -> {}

\* A register read that does not look at the width.
dma_reg_any_width(offset, width) ==
    LET major == (offset \div 16) % 8
        minor == offset % 16
    IN  IF major \in 0..6
        THEN LET channel == dma.channels[from_index(major)]
             IN  CASE minor = 0 -> {from_u32(width, channel.base)}
                   [] minor = 4 -> {from_u32(width, block_control(channel))}
                   [] minor = 8 -> {from_u32(width, control(channel))}
                   [] OTHER -> {}
        ELSE CASE minor = 0 -> {from_u32(width, dma.control)}
               [] minor = 4 -> {from_u32(width, dma.interrupt)}
               [] OTHER -> {}

\* Interconnect::dma_reg: {value} of the register read, {} where it panics
dma_reg(offset, width) ==
    IF width # "Word"
    THEN {}
    ELSE
    LET major == (offset \div 16) % 8       \* (offset & 0x70) >> 4
        minor == offset % 16                \* offset & 0xf
    IN  IF major \in 0..6
        THEN LET channel == dma.channels[from_index(major)]
             IN  CASE minor = 0 -> {from_u32(width, channel.base)}
                   [] minor = 4 -> {from_u32(width, block_control(channel))}
                   [] minor = 8 -> {from_u32(width, control(channel))}
                   [] OTHER -> {}
        ELSE CASE minor = 0 -> {from_u32(width, dma.control)}
               [] minor = 4 -> {from_u32(width, dma.interrupt)}
               [] OTHER -> {}

\* What gpu.load may answer (the video subsystem is outside the bus).
GpuLoads == {<<\H0000, \H0000>>, <<\H1c00, \H0000>>}

\* Interconnect::load: the set of values the load may return, {} where it panics
load(addr, width) ==
    LET abs_addr == mask_region(addr)
    IN  IF contains(RAM, abs_addr) # {}
        THEN {MemLoad(ram, width, Offset(RAM, abs_addr))}
        ELSE IF contains(BIOS, abs_addr) # {}
        THEN {MemLoad(bios, width, Offset(BIOS, abs_addr))}
        ELSE IF contains(IRQ_CONTROL, abs_addr) # {}
        THEN {from_u32(width, <<0, 0>>)}
        ELSE IF contains(DMA, abs_addr) # {}
        THEN dma_reg(Offset(DMA, abs_addr), width)
        ELSE IF contains(GPU, abs_addr) # {}
        THEN {from_u32(width, g) : g \in GpuLoads}
        ELSE IF contains(TIMERS, abs_addr) # {}
        THEN {from_u32(width, <<0, 0>>)}
        ELSE IF contains(SPU, abs_addr) # {}
        THEN {from_u32(width, <<0, 0>>)}
        ELSE IF contains(EXPANSION_1, abs_addr) # {}
        THEN {from_u32(width, <<\Hffff, \Hffff>>)}
        ELSE {}

\* A load that resets the cache control register.
Load_resetting_cache_control(addr, width) ==
    /\ pc = "idle"
    /\ nops < MaxOps
    /\ nops' = nops + 1
    /\ call' = call
    /\ renderer' = renderer
    /\ gp0' = <<>>
    /\ gp0_lost' = FALSE
    /\ ram_writes' = <<>>
    /\ LET o == BusOp("load", addr, width, <<0, 0>>)
       IN  IF load(addr, width) = {}
           THEN Panics(o)
           ELSE \E r \in load(addr, width) :
                    Returns([o EXCEPT !.ret = as_u32(width, r)])
    /\ cache_control' = <<0, 0>>
    /\ UNCHANGED <<ram, bios, dma, xfer>>

\* A call of Interconnect::load
Load(addr, width) ==
    /\ pc = "idle"
    /\ nops < MaxOps
    /\ nops' = nops + 1
    /\ call' = call
    /\ renderer' = renderer
    /\ gp0' = <<>>
    /\ gp0_lost' = FALSE
    /\ ram_writes' = <<>>
    /\ LET o == BusOp("load", addr, width, <<0, 0>>)
       IN  IF load(addr, width) = {}
           THEN Panics(o)
           ELSE \E r \in load(addr, width) :
                    Returns([o EXCEPT !.ret = as_u32(width, r)])
    /\ UNCHANGED <<ram, bios, dma, cache_control, xfer>>

\* An instruction cache flag read from bit 10.
icache_enabled_bit10(self) == And32(self, <<\H0000, \H0400>>) # <<0, 0>>

\* CacheControl::icache_enabled
icache_enabled(self) == And32(self, <<\H0000, \H0800>>) # <<0, 0>>

\* CacheControl::tag_test_mode
tag_test_mode(self) == And32(self, <<\H0000, \H0004>>) # <<0, 0>>

\* An increment that ignores the channel's step.
block_increment_always_up(channel) == <<\H0000, \H0004>>

\* do_dma_block: `let increment = match channel.step() { ... }`
block_increment(channel) ==
    IF channel.step = "Increment"
    THEN <<\H0000, \H0004>>
    ELSE <<\Hffff, \Hfffc>>     \* -4

\* do_dma_block: the word the clear-ordering-table port supplies
otc_word(remsz, addr) ==
    IF remsz = 1
    THEN <<\H00ff, \Hffff>>
    ELSE And32(Sub32(addr, <<0, 4>>), <<\H001f, \Hffff>>)

\* Interconnect::do_dma_block: one turn of `while remsz > 0`, or the exit
DmaBlockStep ==
    /\ pc = "do_dma_block"
    /\ LET port == xfer.port
           channel == dma.channels[port]
           addr == xfer.addr
           remsz == xfer.remsz
           increment == block_increment(channel)
           cur_addr == RamWindow(addr)
           advance == /\ xfer' = [xfer EXCEPT !.addr = Add32(addr, increment),
                                              !.remsz = remsz - 1]
                      /\ pc' = pc
                      /\ last' = last
                      /\ dma' = dma
       IN  IF remsz > 0
           THEN IF channel.direction = "FromRam"
                THEN IF port = "Gpu"
                     THEN /\ Gp0(MemLoad(ram, "Word", cur_addr))
                          /\ UNCHANGED <<ram, ram_writes>>
                          /\ advance
                     ELSE /\ Panics(last)
                          /\ UNCHANGED <<ram, ram_writes, dma, xfer, gp0, gp0_lost>>
                ELSE IF port = "Otc"
                     THEN LET src_word == otc_word(remsz, addr)
                          IN  /\ ram' = MemStore(ram, "Word", cur_addr, src_word)
                              /\ ram_writes' = Append(ram_writes, <<cur_addr, src_word>>)
                              /\ UNCHANGED <<gp0, gp0_lost>>
                              /\ advance
                     ELSE /\ Panics(last)
                          /\ UNCHANGED <<ram, ram_writes, dma, xfer, gp0, gp0_lost>>
           ELSE /\ dma' = [dma EXCEPT !.channels[port] = done(channel)]
                /\ pc' = "idle"
                /\ xfer' = NoXfer
                /\ UNCHANGED <<ram, ram_writes, gp0, gp0_lost, last>>
    /\ UNCHANGED <<bios, cache_control, nops, call, renderer>>

\* A packet size read from the upper half of the header.
packet_size_shift16(header) == header[1]

\* An end-of-table test on the top bit of the word.
end_of_table_bit31(header) == And32(header, <<\H8000, \H0000>>) # <<0, 0>>

\* A payload address that is not wrapped to the RAM window.
next_word_unmasked(addr) == Add32(addr, <<0, 4>>)

\* do_dma_linked_list: `let mut remsz = header >> 24`
packet_size(header) == header[1] \div 256

\* do_dma_linked_list: `addr = (addr + 4) & 0x1ffffc`
next_word(addr) == And32(Add32(addr, <<0, 4>>), <<\H001f, \Hfffc>>)

\* do_dma_linked_list: `header & 0x800000 != 0`
end_of_table(header) == And32(header, <<\H0080, \H0000>>) # <<0, 0>>

\* do_dma_linked_list: `addr = header & 0x1ffffc`
next_node(header) == And32(header, <<\H001f, \Hfffc>>)

\* Interconnect::do_dma_linked_list: the head of `loop`, the header is read
DmaListHeader ==
    /\ pc = "ll_header"
    /\ LET header == MemLoad(ram, "Word", Val(xfer.addr))
       IN  xfer' = [xfer EXCEPT !.header = header, !.remsz = packet_size(header)]
    /\ pc' = "ll_packet"
    /\ UNCHANGED <<ram, bios, dma, cache_control, gp0, gp0_lost, ram_writes, last, nops, call,
                   renderer>>

\* Interconnect::do_dma_linked_list: one turn of `while remsz > 0`, or what
\* follows the packet: the end-of-table test and the next node
DmaListPacket ==
    /\ pc = "ll_packet"
    /\ LET header == xfer.header
           remsz == xfer.remsz
           addr == next_word(xfer.addr)
       IN  IF remsz > 0
           THEN /\ Gp0(MemLoad(ram, "Word", Val(addr)))
                /\ xfer' = [xfer EXCEPT !.addr = addr, !.remsz = remsz - 1]
                /\ UNCHANGED <<pc, dma>>
           ELSE IF end_of_table(header)
           THEN /\ dma' = [dma EXCEPT !.channels[xfer.port] = done(dma.channels[xfer.port])]
                /\ pc' = "idle"
                /\ xfer' = NoXfer
                /\ UNCHANGED <<gp0, gp0_lost>>
           ELSE /\ xfer' = [xfer EXCEPT !.addr = next_node(header),
                                        !.remsz = 0, !.header = <<0, 0>>]
                /\ pc' = "ll_header"
                /\ UNCHANGED <<dma, gp0, gp0_lost>>
    /\ UNCHANGED <<ram, bios, cache_control, ram_writes, last, nops, call, renderer>>

----------------------------------------------------------------------------
(* gpu/opengl/mod.rs: the Renderer.  A vertex is represented by a label,   *)
(* the number of vertices created before it; its position, colour and     *)
(* alpha are not modelled.  A slice of vertices is [id, n]: the n         *)
(* vertices labelled id .. id+n-1.  The vertex buffer is a set of runs    *)
(* [slot, n, id]: the slots slot .. slot+n-1 hold the vertices            *)
(* id .. id+n-1.  fb_out is the list of the draws made into the           *)
(* framebuffer texture, and pushed the list of the primitives stored in   *)
(* the vertex buffer, each with the offset uniform and the scissor of the *)
(* moment; in both lists a run of primitives of one type, one offset and  *)
(* one scissor over consecutive labels is one entry.                      *)

\* Maximum number of vertices in the command vertex buffer
VERTEX_BUFFER_LEN == 64 * 1024

PrimitiveType == {"TrianglesList", "LinesList"}

\* glium::Rect
Rect(left, bottom, width, height) ==
    [left |-> left, bottom |-> bottom, width |-> width, height |-> height]

\* Renderer::new
RendererNew ==
    [fb_x_res |-> 1024,
     fb_y_res |-> 512,
     command_vertex_buffer |-> {},
     nvertices |-> 0,
     command_queue |-> <<>>,
     current_command |-> <<"TrianglesList", 0>>,
     command_uniforms |-> [offset |-> <<0, 0>>],
     offset |-> <<0, 0>>,
     command_params |-> [scissor |-> {Rect(0, 0, 1024, 512)}],
     fb_out |-> <<>>,
     window |-> <<>>,
     pushed |-> <<>>,
     handed |-> 0,
     panicked |-> FALSE,
     last_call |-> "new",
     calls |-> 0]

\* The n vertices a caller creates next, and the renderer once they exist.
CommandVertices(r, n) == [id |-> r.handed, n |-> n]
Hand(r, n) == [r EXCEPT !.handed = @ + n]

Smaller(a, b) == IF a < b THEN a ELSE b
Larger(a, b) == IF a < b THEN b ELSE a

\* VertexBuffer::slice(start..end) read: the labels held by the slots, in
\* slot order; a slot never written holds the label -1.
RECURSIVE ReadSlice(_, _, _)
ReadSlice(buffer, start, end) ==
    IF start >= end THEN <<>>
    ELSE LET here == {run \in buffer : run.slot <= start /\ start < run.slot + run.n}
         IN  IF here = {}
             THEN LET later == {run.slot : run \in {x \in buffer : start < x.slot /\ x.slot < end}}
                      stop == IF later = {} THEN end
                              ELSE CHOOSE m \in later : \A k \in later : m <= k
                  IN  <<[id |-> -1, n |-> stop - start]>> \o ReadSlice(buffer, stop, end)
             ELSE LET run == CHOOSE x \in here : TRUE
                      stop == Smaller(run.slot + run.n, end)
                  IN  <<[id |-> run.id + (start - run.slot), n |-> stop - start]>>
                          \o ReadSlice(buffer, stop, end)

\* VertexBuffer::slice(start..end) written with vertices: the slots of the
\* slice take the new labels, the others keep theirs.
WriteSlice(buffer, start, vertices) ==
    LET end == start + vertices.n
        Part(run, lo, hi) ==
            LET a == Larger(run.slot, lo)
                b == Smaller(run.slot + run.n, hi)
            IN  IF a < b THEN {[slot |-> a, n |-> b - a, id |-> run.id + (a - run.slot)]}
                ELSE {}
        kept == UNION {Part(run, 0, start) \cup Part(run, end, VERTEX_BUFFER_LEN) :
                       run \in buffer}
        before == {run \in kept : run.slot + run.n = start /\ run.id + run.n = vertices.id}
    IN  IF before = {}
        THEN kept \cup {[slot |-> start, n |-> vertices.n, id |-> vertices.id]}
        ELSE LET run == CHOOSE x \in before : TRUE
             IN  (kept \ {run})
                 \cup {[slot |-> run.slot, n |-> run.n + vertices.n, id |-> run.id]}

\* Two entries of a list of primitives that make one run.
Joins(a, b) ==
    /\ a.primitive = b.primitive
    /\ a.offset = b.offset
    /\ a.scissor = b.scissor
    /\ a.id + a.n = b.id

Join(list, entry) ==
    IF list # <<>> /\ Joins(list[Len(list)], entry)
    THEN [list EXCEPT ![Len(list)].n = @ + entry.n]
    ELSE Append(list, entry)

\* The primitive stored by push_primitive, as the list of pushed primitives
\* has it.
Pushed(r, primitive_type, vertices) ==
    Join(r.pushed, [primitive |-> primitive_type,
                    id |-> vertices.id,
                    n |-> vertices.n,
                    offset |-> r.command_uniforms.offset,
                    scissor |-> r.command_params.scissor])

\* One surface.draw of Renderer::draw: the slice of the vertex buffer drawn
\* as primitives of the command's type under command_uniforms and
\* command_params.
DrawCall(r, cmd, vertex_pos) ==
    LET slice == ReadSlice(r.command_vertex_buffer, vertex_pos, vertex_pos + cmd[2])
    IN  [i \in 1..Len(slice) |->
            [primitive |-> cmd[1],
             id |-> slice[i].id,
             n |-> slice[i].n,
             offset |-> r.command_uniforms.offset,
             scissor |-> r.command_params.scissor]]

\* The loop of Renderer::draw over the command queue
RECURSIVE DrawQueue(_, _, _)
DrawQueue(r, queue, vertex_pos) ==
    IF queue = <<>> THEN <<>>
    ELSE DrawCall(r, Head(queue), vertex_pos)
             \o DrawQueue(r, Tail(queue), vertex_pos + Head(queue)[2])

\* A draw that leaves nvertices as it was.
draw_keeping_nvertices(r) ==
    LET cmd_len == r.current_command[2]
        command_queue == IF cmd_len > 0 THEN Append(r.command_queue, r.current_command)
                         ELSE r.command_queue
    IN  IF command_queue = <<>> THEN r
        ELSE [r EXCEPT !.fb_out = @ \o DrawQueue(r, command_queue, 0),
                       !.command_queue = <<>>,
                       !.current_command = <<"TrianglesList", 0>>]

\* Renderer::draw
draw(r) ==
    LET cmd_len == r.current_command[2]
        command_queue == IF cmd_len > 0 THEN Append(r.command_queue, r.current_command)
                         ELSE r.command_queue
    IN  IF command_queue = <<>> THEN r
        ELSE [r EXCEPT !.fb_out = @ \o DrawQueue(r, command_queue, 0),
                       !.nvertices = 0,
                       !.command_queue = <<>>,
                       !.current_command = <<"TrianglesList", 0>>]

\* Renderer::push_primitive.  The unwrap of a slice that runs over the end
\* of the buffer panics.
push_primitive(r, primitive_type, vertices) ==
    LET primitive_vertices == vertices.n
        flushed == IF r.nvertices + primitive_vertices > VERTEX_BUFFER_LEN THEN draw(r)
                   ELSE r
        changed == primitive_type # flushed.current_command[1]
        command_queue == IF changed /\ flushed.current_command[2] > 0
                         THEN Append(flushed.command_queue, flushed.current_command)
                         ELSE flushed.command_queue
        cmd_len == IF changed THEN 0 ELSE flushed.current_command[2]
        start == flushed.nvertices
        end == start + primitive_vertices
    IN  IF r.panicked THEN r
        ELSE IF end > VERTEX_BUFFER_LEN
        THEN [flushed EXCEPT !.command_queue = command_queue, !.panicked = TRUE]
        ELSE [flushed EXCEPT !.command_queue = command_queue,
                             !.command_vertex_buffer = WriteSlice(@, start, vertices),
                             !.nvertices = end,
                             !.current_command = <<primitive_type,
                                                   cmd_len + primitive_vertices>>,
                             !.pushed = Pushed(flushed, primitive_type, vertices)]

\* Renderer::push_triangle
push_triangle(r, vertices) == push_primitive(r, "TrianglesList", vertices)

\* Renderer::push_quad: the triangles of vertices 0, 1, 2 and 1, 2, 3
push_quad(r, vertices) ==
    push_triangle(push_triangle(r, [id |-> vertices.id, n |-> 3]),
                  [id |-> vertices.id + 1, n |-> 3])

\* Renderer::push_line
push_line(r, vertices) == push_primitive(r, "LinesList", vertices)

\* A fill_rect that leaves the scissor disabled.
fill_rect_scissor_left_disabled(r) ==
    LET flushed == draw(r)
        bare == [flushed EXCEPT !.command_params.scissor = {},
                                !.command_uniforms = [offset |-> <<0, 0>>]]
        filled == draw(push_quad(Hand(bare, 4), CommandVertices(bare, 4)))
    IN  [filled EXCEPT !.command_uniforms = [offset |-> filled.offset]]

\* Renderer::fill_rect: the four corners are vertices of its own making
fill_rect(r) ==
    LET flushed == draw(r)
        scissor == flushed.command_params.scissor
        bare == [flushed EXCEPT !.command_params.scissor = {},
                                !.command_uniforms = [offset |-> <<0, 0>>]]
        filled == draw(push_quad(Hand(bare, 4), CommandVertices(bare, 4)))
    IN  [filled EXCEPT !.command_params.scissor = scissor,
                       !.command_uniforms = [offset |-> filled.offset]]

\* A set_draw_offset that does not draw the pending primitives first.
set_draw_offset_unflushed(r, x, y) ==
    [r EXCEPT !.offset = <<x, y>>,
              !.command_uniforms = [offset |-> <<x, y>>]]

\* Renderer::set_draw_offset; x as i32 widens the i16 and keeps its value
set_draw_offset(r, x, y) ==
    [draw(r) EXCEPT !.offset = <<x, y>>,
                    !.command_uniforms = [offset |-> <<x, y>>]]

\* Renderer::scale_coords; !y of a u16 is 0xffff - y
scale_coords(r, x, y) ==
    LET flipped == BitAnd(65535 - y, 511)
    IN  <<(x * r.fb_x_res + 512) \div 1024, (flipped * r.fb_y_res + 256) \div 512>>

\* Renderer::set_drawing_area
set_drawing_area(r, left, top, right, bottom) ==
    LET flushed == draw(r)
        top_left == scale_coords(flushed, left, top)
        bottom_right == scale_coords(flushed, right, bottom)
        l == top_left[1]
        t == top_left[2]
        rt == bottom_right[1]
        b == bottom_right[2]
    IN  IF l > rt \/ b > t
        THEN [flushed EXCEPT !.command_params.scissor = {Rect(0, 0, 0, 0)}]
        ELSE [flushed EXCEPT !.command_params.scissor =
                                 {Rect(l, b, rt - l + 1, t - b + 1)}]

\* Renderer::display: the pending primitives are drawn, then the part of
\* fb_out between the given corners is put on the window
display(r, fb_x, fb_y, width, height) ==
    [draw(r) EXCEPT !.window = <<fb_x, fb_x + width, fb_y + height, fb_y>>]

----------------------------------------------------------------------------
(* The bus driven by a caller: initial memories and the operations issued  *)

\* Command words found in the lists below.
CmdA == <<\H2000, \H00a1>>
CmdB == <<\H2000, \H00b2>>
CmdC == <<\H2000, \H00c3>>

\* RAM contents at the start (Ram::new is outside the sources; any content
\* can also be put there by stores).  It holds
\*   at 0x00      a last node 0x01ffffff: one word, the usual end marker;
\*   at 0x10      a first node 0x02000020 (two words, next 0x20) and, at
\*                0x20, the header 0x81000000: top byte 0x81, bit 23 clear,
\*                next 0;
\*   at 0x30      a first node 0x02000050 and, at 0x50, the last node
\*                0x01800000: one word, bit 23 set;
\*   at 0x60      a node 0x80000060 that is its own successor;
\*   at 0x1ffff8  a last node whose two words wrap to offset 0.
\* Every other word is 0.
RamImage ==
    MemOf(<< <<\H00, <<\H01ff, \Hffff>>>>, <<\H04, CmdC>>,
             <<\H10, <<\H0200, \H0020>>>>, <<\H14, CmdA>>, <<\H18, CmdB>>,
             <<\H20, <<\H8100, \H0000>>>>, <<\H24, CmdC>>,
             <<\H30, <<\H0200, \H0050>>>>, <<\H34, CmdA>>, <<\H38, CmdB>>,
             <<\H50, <<\H0180, \H0000>>>>, <<\H54, CmdC>>,
             <<\H60, <<\H8000, \H0060>>>>,
             <<\H1ffff8, <<\H0280, \H0000>>>>, <<\H1ffffc, CmdB>> >>)

BiosImage == MemOf(<< <<0, <<\H3c08, \H0013>>>> >>)

\* No function of mod map or Addressable is being called on its own.
NoCall == [fn |-> "none", arg |-> <<>>, done |-> FALSE, ret |-> <<>>]

\* Interconnect::new
Init ==
    /\ ram = RamImage
    /\ bios = BiosImage
    /\ dma = DmaNew
    /\ cache_control = <<0, 0>>
    /\ gp0 = <<>>
    /\ gp0_lost = FALSE
    /\ ram_writes = <<>>
    /\ pc = "idle"
    /\ xfer = NoXfer
    /\ last = BusOp("none", <<0, 0>>, "Word", <<0, 0>>)
    /\ nops = 0
    /\ call = NoCall
    /\ renderer = RendererNew

\* The address of a channel register: DMA + port index * 0x10 + minor
DmaRegAddr(index, minor) == Add32(DMA.start, U32(index * 16 + minor))

\* A channel control word.
ControlWord(enable, trigger, sync, step, direction) ==
    <<256 * enable + 4096 * trigger, 512 * sync + 2 * step + direction>>

\* Channel control words stored: every enabled mode, in both directions and
\* steps where they matter, and a disabled one.
ControlWords ==
    {ControlWord(1, 1, 0, s, d) : s \in {0, 1}, d \in {0, 1}}
    \cup {ControlWord(1, 0, 1, s, d) : s \in {0, 1}, d \in {0, 1}}
    \cup {ControlWord(1, 0, 2, 0, d) : d \in {0, 1}}
    \cup {ControlWord(1, 0, 0, 0, 1), ControlWord(0, 1, 1, 0, 1)}

\* Control words stored to the port that is neither GPU nor OTC.
OtherControlWords ==
    {ControlWord(1, 1, 0, 0, 1), ControlWord(1, 0, 1, 0, 0), ControlWord(1, 0, 2, 0, 1)}

\* Base addresses stored, per port index: the heads of the lists (one of
\* them unaligned, one with bits above the RAM window), and bases from
\* which a block runs over either end of RAM.
BaseWords(index) ==
    CASE index = 2 -> {<<\H0000, \H0010>>, <<\H0000, \H0030>>, <<\H0000, \H0062>>,
                       <<\Hff1f, \Hfff8>>}
      [] index = 6 -> {<<\H0000, \H0004>>, <<\Hff1f, \Hfff8>>, <<\H0000, \H0013>>}
      [] OTHER -> {<<\H0000, \H0010>>}

\* Block-control words stored: <<count, size>>.
BlockWords(index) ==
    IF index \in {2, 6} THEN {<<2, 2>>, <<0, 3>>} ELSE {<<0, 1>>}

\* The channels the caller programs: the two implemented ports and another.
DmaIndexes == {2, 4, 6}

\* Word stores to the channel registers.
DmaStores ==
    UNION { {<<DmaRegAddr(i, 0), b>> : b \in BaseWords(i)}
            \cup {<<DmaRegAddr(i, 4), b>> : b \in BlockWords(i)}
            \cup {<<DmaRegAddr(i, 8), c>> :
                     c \in IF i \in {2, 6} THEN ControlWords ELSE OtherControlWords}
          : i \in DmaIndexes }

\* Loads of the channel registers.
DmaLoads == {DmaRegAddr(i, 8) : i \in DmaIndexes}

StoreDma == \E s \in DmaStores : Store(s[1], "Word", s[2])

LoadDma == \E a \in DmaLoads : Load(a, "Word")

Next ==
    \/ StoreDma
    \/ LoadDma
    \/ DmaBlockStep
    \/ DmaListHeader
    \/ DmaListPacket

Spec == Init /\ [][Next]_vars

\* The caller is one thread: a transfer that was started keeps running.
FairSpec ==
    /\ Spec
    /\ WF_vars(DmaBlockStep)
    /\ WF_vars(DmaListHeader)
    /\ WF_vars(DmaListPacket)

----------------------------------------------------------------------------
(* The bus decoder: loads and stores of every width over the boundaries of *)
(* the address ranges, the space between them and their mirrors.           *)

\* The bound on the bus operations of a run of the decoder.
MaxBusOps == 2

\* Addresses inside the ranges: first or last bytes, mirrors in KSEG0/KSEG1.
MappedAddrs == {
    <<\H0000, \H0000>>, <<\H001f, \Hffff>>, <<\H8000, \H0010>>, <<\Ha01f, \Hfffc>>,
    <<\H1f00, \H0000>>,
    <<\H1fc0, \H0000>>, <<\Hbfc7, \Hfffc>>,
    <<\H1f80, \H1000>>, <<\H1f80, \H1004>>,
    <<\H1f80, \H1060>>, <<\H1f80, \H1070>>,
    <<\H1f80, \H10a8>>, <<\H1f80, \H10e8>>, <<\H1f80, \H10f0>>, <<\H1f80, \H10ff>>,
    <<\H1f80, \H112f>>,
    <<\H1f80, \H1810>>, <<\H1f80, \H1e7f>>,
    <<\H1f80, \H2041>>,
    <<\Hfffe, \H0130>>, <<\Hfffe, \H0133>> }

\* Addresses next to the ranges and between them, and mirrors of such.
OtherAddrs == {
    <<\H0020, \H0000>>, <<\H1eff, \Hffff>>, <<\H1f08, \H0000>>,
    <<\H1f80, \H0000>>, <<\H1f80, \H0fff>>, <<\H1f80, \H1024>>,
    <<\H1f80, \H105f>>, <<\H1f80, \H1064>>, <<\H1f80, \H106f>>,
    <<\H1f80, \H1078>>, <<\H1f80, \H1130>>, <<\H1f80, \H180f>>,
    <<\H1f80, \H1818>>, <<\H1f80, \H1bff>>, <<\H1f80, \H1e80>>,
    <<\H1f80, \H2042>>, <<\H1fbf, \Hffff>>, <<\H1fc8, \H0000>>,
    <<\H2000, \H0000>>, <<\H7fff, \Hffff>>,
    <<\H8020, \H0000>>, <<\H9ffe, \H0130>>, <<\Ha020, \H0000>>,
    <<\Hbf80, \H0000>>, <<\Hbffe, \H0130>>,
    <<\Hc000, \H0000>>, <<\Hdf80, \H1080>>, <<\Hfffe, \H012f>>,
    <<\Hfffe, \H0134>>, <<\Hffff, \Hffff>> }

BusAddrs == MappedAddrs \cup OtherAddrs

\* Words stored to the cache control register.
CacheWords == {
    <<\H0000, \H0000>>, <<\H0000, \H0800>>, <<\H0000, \H0004>>,
    <<\H0000, \H0804>>, <<\H0001, \He988>>, <<\Hffff, \Hf7fb>> }

\* The words stored at an address: the expansion bases the memory control
\* registers expect, control words that start a transfer, cache control
\* words, and one word for the rest.
BusWords(addr) ==
    IF addr[1] = \Hfffe THEN CacheWords
    ELSE IF addr \in {<<\H1f80, \H1000>>, <<\H1f80, \H1004>>}
    THEN {<<\H1f00, \H0000>>, <<\H1f80, \H2000>>}
    ELSE IF addr \in {<<\H1f80, \H10a8>>, <<\H1f80, \H10e8>>}
    THEN {ControlWord(1, 1, 0, 0, 0), ControlWord(1, 0, 2, 0, 1)}
    ELSE {<<\H0000, \H0804>>}

StoreBus ==
    /\ nops < MaxBusOps
    /\ \E addr \in BusAddrs, width \in AccessWidth : \E v \in BusWords(addr) :
           Store(addr, width, from_u32(width, v))

LoadBus ==
    /\ nops < MaxBusOps
    /\ \E addr \in BusAddrs, width \in AccessWidth : Load(addr, width)

NextBus ==
    \/ StoreBus
    \/ LoadBus
    \/ DmaBlockStep
    \/ DmaListHeader
    \/ DmaListPacket

SpecBus == Init /\ [][NextBus]_vars

----------------------------------------------------------------------------
(* Loads and stores through the three mirrors of RAM.                      *)

\* Offsets in RAM as address halves: a list header of the image, a halfword
\* inside it, and the last word of RAM.
RamOffsets == {<<\H0000, \H0010>>, <<\H0000, \H0012>>, <<\H001f, \Hfffc>>}

\* The KUSEG, KSEG0 and KSEG1 addresses of these offsets.
RamAddrs == {<<m + o[1], o[2]>> : m \in {\H0000, \H8000, \Ha000}, o \in RamOffsets}

\* Words stored, truncated to the width of the store.
RamWords == {<<\H1234, \H5678>>, <<\Hfffe, \H8130>>}

StoreRam ==
    /\ nops < MaxBusOps
    /\ \E addr \in RamAddrs, width \in AccessWidth, v \in RamWords :
           Store(addr, width, from_u32(width, v))

LoadRam ==
    /\ nops < MaxBusOps
    /\ \E addr \in RamAddrs, width \in AccessWidth : Load(addr, width)

NextRam ==
    \/ StoreRam
    \/ LoadRam

SpecRam == Init /\ [][NextRam]_vars

----------------------------------------------------------------------------
(* Loads and stores over the DMA registers.                                *)

\* Every address of the registers of channels 2 (GPU) and 6 (OTC) and of the
\* global block, and addresses of other channels and of the mirrors.
DmaRegAddrs ==
    {<<\H1f80, \H1080 + 16 * major + minor>> : major \in {2, 6, 7}, minor \in 0..15}
    \cup {<<\H1f80, \H1080>>, <<\H1f80, \H108c>>, <<\H1f80, \H10c8>>, <<\H1f80, \H10d6>>,
          <<\Hbf80, \H10a8>>, <<\Hbf80, \H10ac>>, <<\H9f80, \H10f4>>, <<\H9f80, \H10f8>>}

\* The words stored at a register: control words that start a block and a
\* linked-list transfer at the channel control registers, two words at the
\* registers of the global block, one word elsewhere.
DmaRegWords(addr) ==
    IF addr[2] % 16 = 8 /\ addr[2] < \H10f0
    THEN {ControlWord(1, 1, 0, 0, 0), ControlWord(1, 0, 2, 0, 1)}
    ELSE IF addr[2] \in {\H10f0, \H10f4}
    THEN {<<\H0000, \H0010>>, <<\H0765, \H4321>>}
    ELSE {<<\H0000, \H0010>>}

StoreDmaReg ==
    /\ nops < MaxBusOps
    /\ \E addr \in DmaRegAddrs, width \in AccessWidth : \E v \in DmaRegWords(addr) :
           Store(addr, width, from_u32(width, v))

LoadDmaReg ==
    /\ nops < MaxBusOps
    /\ \E addr \in DmaRegAddrs, width \in AccessWidth : Load(addr, width)

NextDmaReg ==
    \/ StoreDmaReg
    \/ LoadDmaReg
    \/ DmaBlockStep
    \/ DmaListHeader
    \/ DmaListPacket

SpecDmaReg == Init /\ [][NextDmaReg]_vars

----------------------------------------------------------------------------
(* Loads and stores over the memory control registers.                     *)

\* Addresses of the memory control range: the two expansion base registers,
\* the bytes behind them, other registers, the last byte, and mirrors.
MemControlAddrs ==
    {<<\H1f80, \H1000 + k>> : k \in {0, 1, 4, 5, 8, 16, 32, 35}}
    \cup {<<\Hbf80, \H1000>>, <<\H9f80, \H1004>>, <<\Hbf80, \H1008>>}

\* The words stored: the two expansion bases and another word.
MemControlWords == {<<\H1f00, \H0000>>, <<\H1f80, \H2000>>, <<\H0000, \H0000>>}

StoreMemControl ==
    /\ nops < MaxBusOps
    /\ \E addr \in MemControlAddrs, width \in AccessWidth, v \in MemControlWords :
           Store(addr, width, from_u32(width, v))

LoadMemControl ==
    /\ nops < MaxBusOps
    /\ \E addr \in MemControlAddrs, width \in AccessWidth : Load(addr, width)

NextMemControl ==
    \/ StoreMemControl
    \/ LoadMemControl

SpecMemControl == Init /\ [][NextMemControl]_vars

----------------------------------------------------------------------------
(* Loads and stores over the stubbed peripherals and over the ranges that  *)
(* only loads or only stores are routed to.                                *)

\* First, middle and last address of IRQ control, the timers, the SPU,
\* expansion 1, the RAM size register, expansion 2, the BIOS, cache control
\* and memory control, and the KSEG1 mirrors of the first addresses.
StubAddrs == {
    <<\H1f80, \H1070>>, <<\H1f80, \H1074>>, <<\H1f80, \H1077>>, <<\Hbf80, \H1070>>,
    <<\H1f80, \H1100>>, <<\H1f80, \H1118>>, <<\H1f80, \H112f>>, <<\Hbf80, \H1100>>,
    <<\H1f80, \H1c00>>, <<\H1f80, \H1d40>>, <<\H1f80, \H1e7f>>, <<\Hbf80, \H1c00>>,
    <<\H1f00, \H0000>>, <<\H1f04, \H0000>>, <<\H1f07, \Hffff>>, <<\Hbf00, \H0000>>,
    <<\H1f80, \H1060>>, <<\H1f80, \H1062>>, <<\H1f80, \H1063>>, <<\Hbf80, \H1060>>,
    <<\H1f80, \H2000>>, <<\H1f80, \H2021>>, <<\H1f80, \H2041>>, <<\Hbf80, \H2000>>,
    <<\H1fc0, \H0000>>, <<\H1fc4, \H0000>>, <<\H1fc7, \Hffff>>, <<\Hbfc0, \H0000>>,
    <<\Hfffe, \H0130>>, <<\Hfffe, \H0132>>, <<\Hfffe, \H0133>>,
    <<\H1f80, \H1000>>, <<\H1f80, \H1012>>, <<\H1f80, \H1023>>, <<\Hbf80, \H1000>> }

\* The words stored, truncated to the width of the store.
StubWords == {<<\H0000, \H0000>>, <<\Hfffe, \H8130>>}

StoreStub ==
    /\ nops < MaxBusOps
    /\ \E addr \in StubAddrs, width \in AccessWidth, v \in StubWords :
           Store(addr, width, from_u32(width, v))

LoadStub ==
    /\ nops < MaxBusOps
    /\ \E addr \in StubAddrs, width \in AccessWidth : Load(addr, width)

NextStub ==
    \/ StoreStub
    \/ LoadStub

SpecStub == Init /\ [][NextStub]_vars

----------------------------------------------------------------------------
(* The renderer driven by a caller, from a new renderer and from renderers *)
(* whose vertex buffer earlier pushes have filled or nearly filled.       *)

\* Calls of the renderer's methods in one run.
MaxCalls == 4

\* The renderer after n vertices of one primitive type were pushed to a
\* new renderer.
Filled(primitive_type, n) ==
    [RendererNew EXCEPT
        !.command_vertex_buffer = {[slot |-> 0, n |-> n, id |-> 0]},
        !.nvertices = n,
        !.current_command = <<primitive_type, n>>,
        !.pushed = <<[primitive |-> primitive_type, id |-> 0, n |-> n,
                      offset |-> <<0, 0>>,
                      scissor |-> {Rect(0, 0, 1024, 512)}]>>,
        !.handed = n,
        !.last_call = IF primitive_type = "LinesList" THEN "push_line"
                      ELSE "push_triangle"]

Renderers ==
    {RendererNew,
     Filled("TrianglesList", 3 * 21844),
     Filled("TrianglesList", 3 * 21845),
     Filled("LinesList", 2 * 32767),
     Filled("LinesList", 2 * 32768)}

DrawOffsets == {<<0, 0>>, <<16, -8>>}
\* left, top, right, bottom
DrawingAreas == {<<0, 0, 1023, 511>>, <<64, 32, 319, 239>>, <<320, 0, 0, 0>>}

interconnect ==
    <<ram, bios, dma, cache_control, gp0, gp0_lost, ram_writes, pc, xfer, last, nops,
      call>>

InitRenderer ==
    /\ ram = RamImage
    /\ bios = BiosImage
    /\ dma = DmaNew
    /\ cache_control = <<0, 0>>
    /\ gp0 = <<>>
    /\ gp0_lost = FALSE
    /\ ram_writes = <<>>
    /\ pc = "idle"
    /\ xfer = NoXfer
    /\ last = BusOp("none", <<0, 0>>, "Word", <<0, 0>>)
    /\ nops = 0
    /\ call = NoCall
    /\ renderer \in Renderers

\* A method called by the caller has returned r.
Called(method, r) ==
    /\ renderer.calls < MaxCalls
    /\ ~renderer.panicked
    /\ renderer' = [r EXCEPT !.last_call = method, !.calls = @ + 1]
    /\ UNCHANGED interconnect

PushTriangle ==
    Called("push_triangle",
           push_triangle(Hand(renderer, 3), CommandVertices(renderer, 3)))

PushQuad ==
    Called("push_quad", push_quad(Hand(renderer, 4), CommandVertices(renderer, 4)))

PushLine ==
    Called("push_line", push_line(Hand(renderer, 2), CommandVertices(renderer, 2)))

FillRect == Called("fill_rect", fill_rect(renderer))

SetDrawOffset ==
    \E o \in DrawOffsets : Called("set_draw_offset", set_draw_offset(renderer, o[1], o[2]))

SetDrawingArea ==
    \E a \in DrawingAreas :
        Called("set_drawing_area", set_drawing_area(renderer, a[1], a[2], a[3], a[4]))

Draw == Called("draw", draw(renderer))

Display == Called("display", display(renderer, 0, 0, 640, 480))

NextRenderer ==
    \/ PushTriangle
    \/ PushQuad
    \/ PushLine
    \/ FillRect
    \/ SetDrawOffset
    \/ SetDrawingArea
    \/ Draw
    \/ Display

SpecRenderer == InitRenderer /\ [][NextRenderer]_vars

----------------------------------------------------------------------------
(* The functions of mod map and of Addressable, called on their own.       *)

\* The ranges of mod map, by name.
RangeOf == [
    RAM |-> RAM, EXPANSION_1 |-> EXPANSION_1, BIOS |-> BIOS,
    MEM_CONTROL |-> MEM_CONTROL, RAM_SIZE |-> RAM_SIZE,
    IRQ_CONTROL |-> IRQ_CONTROL, DMA |-> DMA, TIMERS |-> TIMERS, GPU |-> GPU,
    SPU |-> SPU, EXPANSION_2 |-> EXPANSION_2, CACHE_CONTROL |-> CACHE_CONTROL ]

RangeNames == DOMAIN RangeOf

\* Addresses of every region: upper halves at the region's start and end and
\* at the upper halves of the ranges, over a few lower halves.
RegionAddrs ==
    { <<k * 8192 + d, lo>> :
        k \in 0..7,
        d \in {\H0000, \H001f, \H0020, \H1f00, \H1f80, \H1fc0, \H1ffe, \H1fff},
        lo \in {\H0000, \H0130, \H1080, \Hffff} }

\* Addresses at the two ends of a range, next to them, and far from them.
EdgeAddrs(r) ==
    { r.start,
      Add32(r.start, <<0, 1>>),
      Add32(r.start, U32(r.length - 1)),
      Add32(r.start, U32(r.length)),
      <<\H0000, \H0000>>,
      <<\Hffff, \Hffff>> }
    \cup (IF r.start = <<0, 0>> THEN {} ELSE {Sub32(r.start, <<0, 1>>)})

\* The edge addresses of all the ranges, and their KSEG0 and KSEG1 mirrors.
DispatchAddrs ==
    LET edges == UNION {EdgeAddrs(RangeOf[n]) : n \in RangeNames}
        low == {a \in edges : a[1] < \H2000}
    IN  edges \cup {<<a[1] + \H8000, a[2]>> : a \in low}
              \cup {<<a[1] + \Ha000, a[2]>> : a \in low}

\* Values of each width.
WidthValues(width) ==
    CASE width = "Byte" -> {0, 1, \H7f, \H80, \Hff}
      [] width = "Halfword" -> {0, \Hff, \H100, \H7fff, \H8000, \Hffff}
      [] width = "Word" -> { <<\H0000, \H0000>>, <<\H0000, \H00ff>>, <<\H0000, \H0100>>,
                             <<\H0000, \Hffff>>, <<\H0001, \H0000>>, <<\H1234, \H5678>>,
                             <<\H7fff, \Hffff>>, <<\H8000, \H0080>>, <<\Hfffe, \H8130>>,
                             <<\Hffff, \Hffff>> }

Call(fn, arg) == [fn |-> fn, arg |-> arg, done |-> FALSE, ret |-> <<>>]

\* The calls made.
MapCalls ==
    {Call("mask_region", a) : a \in RegionAddrs}
    \cup {Call("contains", <<n, a>>) : n \in RangeNames, a \in DispatchAddrs}
    \cup {Call("dispatch", a) : a \in DispatchAddrs}
    \cup UNION { {Call("from_as", <<w, x>>) : x \in WidthValues(w)} : w \in AccessWidth }
    \cup {Call("as_from", <<w, v>>) : w \in AccessWidth, v \in WidthValues("Word")}

InitMap ==
    /\ ram = RamImage
    /\ bios = BiosImage
    /\ dma = DmaNew
    /\ cache_control = <<0, 0>>
    /\ gp0 = <<>>
    /\ gp0_lost = FALSE
    /\ ram_writes = <<>>
    /\ pc = "idle"
    /\ xfer = NoXfer
    /\ last = BusOp("none", <<0, 0>>, "Word", <<0, 0>>)
    /\ nops = 0
    /\ call \in MapCalls
    /\ renderer = RendererNew

Return(value) ==
    /\ ~call.done
    /\ call' = [call EXCEPT !.done = TRUE, !.ret = value]
    /\ UNCHANGED <<ram, bios, dma, cache_control, gp0, gp0_lost, ram_writes, pc,
                   xfer, last, nops, renderer>>

\* map::mask_region(addr)
CallMaskRegion ==
    /\ call.fn = "mask_region"
    /\ Return(mask_region(call.arg))

\* range.contains(addr)
CallContains ==
    /\ call.fn = "contains"
    /\ Return(contains(RangeOf[call.arg[1]], call.arg[2]))

\* The ranges that take the address when load or store tries them: those
\* that contain the region-masked address.
CallDispatch ==
    /\ call.fn = "dispatch"
    /\ LET abs_addr == mask_region(call.arg)
       IN  Return({n \in RangeNames : contains(RangeOf[n], abs_addr) # {}})

\* T::from_u32(x.as_u32())
CallFromAs ==
    /\ call.fn = "from_as"
    /\ Return(from_u32(call.arg[1], as_u32(call.arg[1], call.arg[2])))

\* T::from_u32(v).as_u32()
CallAsFrom ==
    /\ call.fn = "as_from"
    /\ Return(as_u32(call.arg[1], from_u32(call.arg[1], call.arg[2])))

NextMap ==
    \/ CallMaskRegion
    \/ CallContains
    \/ CallDispatch
    \/ CallFromAs
    \/ CallAsFrom

SpecMap == InitMap /\ [][NextMap]_vars

----------------------------------------------------------------------------
(* Properties.  What they say of addresses and sizes is computed here in   *)
(* plain integer arithmetic, apart from the operators of the model.        *)

\* The low 21 bits of a word, as an integer.
Low21(w) == (w[1] % 32) * 65536 + w[2]

\* a & 0x1ffffc for an integer a of any sign: wrapped to 21 bits, aligned.
Window(a) == (a % 2097152) - ((a % 2097152) % 4)

\* The operation is a word store to a base, block-control or control
\* register of a channel; the port of that channel.
ChannelStore(o) ==
    /\ o.op = "store"
    /\ o.width = "Word"
    /\ o.addr[1] \in {\H1f80, \H9f80, \Hbf80}
    /\ o.addr[2] \in \H1080..\H10ef
    /\ o.addr[2] % 16 \in {0, 4, 8}

StoredPort(o) ==
    IF ChannelStore(o) THEN Port[((o.addr[2] - \H1080) \div 16) + 1] ELSE "None"

\* The channel the last store wrote to.
StoredChannel ==
    IF ChannelStore(last) THEN dma.channels[StoredPort(last)] ELSE ChannelNew

\* The words a block transfer moves: block_size in manual sync mode,
\* block_size * block_count in request sync mode.
BlockWordCount(ch) ==
    IF ch.sync = "Manual" THEN ch.block_size ELSE ch.block_size * ch.block_count

\* The RAM offset of the i-th word (from 0) of a block transfer.
BlockOffset(ch, i) ==
    IF ch.step = "Increment"
    THEN Window(Low21(ch.base) + 4 * i)
    ELSE Window(Low21(ch.base) - 4 * i)

\* enabled, and manual with the trigger, or request, or linked-list
Started(ch) ==
    ch.enable /\ (   (ch.sync = "Manual" /\ ch.trigger)
                  \/ ch.sync = "Request"
                  \/ ch.sync = "LinkedList")

\* C1: whenever the caller has the bus (between two operations, after
\* stores and loads that returned) no DMA channel is active: the transfer a
\* store started ran to its end, and marked the channel done, before the
\* store returned.
C1_NoChannelActiveBetweenOperations ==
    pc = "idle" =>
        /\ \A p \in Ports : ~Started(dma.channels[p])
        /\ xfer = NoXfer

\* A store started a block transfer of four words, which ran, and returned.
C1_Witness ==
    /\ pc = "idle"
    /\ ChannelStore(last)
    /\ last.dma = "block"
    /\ Len(ram_writes) = 4

\* C2: every step of a block transfer on the GPU port with direction
\* from-RAM and size N either forwards to gp0 the RAM word at
\* (base +/- 4*i) & 0x1ffffc, i the number of words forwarded so far, i < N,
\* or, with i = N, ends the transfer and marks the channel done; RAM is
\* unchanged by either.
C2_GpuBlockForwardsInOrder ==
    [][ (pc = "do_dma_block" /\ StoredPort(last) = "Gpu"
            /\ StoredChannel.direction = "FromRam")
        => LET ch == StoredChannel
               n == BlockWordCount(ch)
               i == Len(gp0)
           IN  /\ ram' = ram
               /\ ~gp0_lost'
               /\ \/ /\ i < n
                     /\ pc' = "do_dma_block"
                     /\ gp0' = Append(gp0, MemLoad(ram, "Word", BlockOffset(ch, i)))
                  \/ /\ i = n
                     /\ pc' = "idle"
                     /\ gp0' = gp0
                     /\ ~dma'.channels["Gpu"].enable
                     /\ ~Started(dma'.channels["Gpu"]) ]_vars

\* A decrementing request-mode transfer of four words to the GPU returned.
C2_Witness ==
    /\ pc = "idle"
    /\ ChannelStore(last)
    /\ last.dma = "block"
    /\ StoredPort(last) = "Gpu"
    /\ StoredChannel.direction = "FromRam"
    /\ StoredChannel.step = "Decrement"
    /\ StoredChannel.sync = "Request"
    /\ Len(gp0) = 4

\* C3: after a block transfer on the OTC port with direction to-RAM that
\* wrote N >= 1 words, the word at the last address written is 0x00ffffff
\* and the word at every other address written is (own_address - 4) &
\* 0x1fffff.
C3_OtcTableEntries ==
    (pc = "idle" /\ ChannelStore(last) /\ last.dma = "block"
        /\ StoredPort(last) = "Otc" /\ StoredChannel.direction = "ToRam"
        /\ Len(ram_writes) >= 1)
    => \A i \in 1..Len(ram_writes) :
           LET own_address == ram_writes[i][1]
           IN  MemLoad(ram, "Word", own_address) =
                   IF i = Len(ram_writes)
                   THEN <<\H00ff, \Hffff>>
                   ELSE U32((own_address - 4) % 2097152)

\* The bound on the nodes the properties follow along a list.
MaxNodes == 16

\* The RAM word at an offset.
WordAt(a) == MemLoad(ram, "Word", a)

\* A linked-list transfer on the GPU port is running or has just returned.
ListStates == {"ll_header", "ll_packet"}

GpuList ==
    /\ ChannelStore(last)
    /\ last.dma = "linked_list"
    /\ StoredPort(last) = "Gpu"
    /\ pc \in ListStates \cup {"idle"}

\* The offset of the first node: base & 0x1ffffc.
ListHead == Window(Low21(StoredChannel.base))

\* RAM holds at a1 a header 0x02000000 | next1 and at next1 the header second.
TwoNodeList(a1, second) ==
    LET h1 == WordAt(a1)
        next1 == (h1[1] % 256) * 65536 + h1[2]
    IN  /\ h1[1] \div 256 = 2
        /\ next1 % 4 = 0
        /\ next1 < 2097152
        /\ next1 \notin {a1, a1 + 4, a1 + 8}
        /\ WordAt(next1) = second

\* The three words of such a list, in list order.
TwoNodeWords(a1) ==
    LET h1 == WordAt(a1)
        next1 == (h1[1] % 256) * 65536 + h1[2]
    IN  <<WordAt(a1 + 4), WordAt(a1 + 8), WordAt(next1 + 4)>>

\* A linked-list transfer over a two-node list forwards its three words, in
\* list order, and no other, and is done when it returns.
ThreeWords(second) ==
    (GpuList /\ TwoNodeList(ListHead, second))
    => /\ ~gp0_lost
       /\ Len(gp0) <= 3
       /\ gp0 = SubSeq(TwoNodeWords(ListHead), 1, Len(gp0))
       /\ pc = "idle" => (Len(gp0) = 3 /\ ~StoredChannel.enable)

\* C4 as stated: with the second header 0x81000000 the transfer forwards
\* exactly the 3 words of the list and ends with the channel done.
C4_SpecListThreeWords == ThreeWords(<<\H8100, \H0000>>)

\* C4, amended: with node 1 header 0x02000000 | next1 and node 2 header
\* 0x01800000 (top byte 1, bit 23 set) a linked-list transfer started at
\* node 1 forwards exactly 3 words (the 2 of node 1, then the 1 of node 2),
\* in list order, and the loop ends with the channel marked done.
C4_TwoNodeListThreeWords ==
    /\ [](ThreeWords(<<\H0180, \H0000>>))
    /\ (GpuList /\ TwoNodeList(ListHead, <<\H0180, \H0000>>))
           ~> (pc = "idle" /\ GpuList /\ Len(gp0) = 3)

\* The transfer over the list at 0x30 returned.
C4_Witness ==
    /\ pc = "idle"
    /\ GpuList
    /\ TwoNodeList(ListHead, <<\H0180, \H0000>>)
    /\ gp0 = <<CmdA, CmdB, CmdC>>

\* The first `room` words a walk from the node at a forwards: for each node
\* the (h >> 24) words behind its header h, then the node at h & 0x1ffffc,
\* the node with bit 23 being the last.  At most `fuel` nodes are followed.
RECURSIVE Walk(_, _, _)
Walk(a, room, fuel) ==
    IF room = 0 \/ fuel = 0 THEN <<>>
    ELSE LET h == WordAt(a)
             count == h[1] \div 256
             take == IF count < room THEN count ELSE room
             words == [j \in 1..take |-> WordAt(Window(a + 4 * j))]
             is_last == (h[1] \div 128) % 2 = 1
         IN  IF is_last \/ take = room
             THEN words
             ELSE words \o Walk(Window(Low21(h)), room - take, fuel - 1)

\* The walk from a comes to a node with bit 23 within `fuel` nodes.
RECURSIVE WalkEnds(_, _)
WalkEnds(a, fuel) ==
    IF fuel = 0 THEN FALSE
    ELSE LET h == WordAt(a)
         IN  IF (h[1] \div 128) % 2 = 1 THEN TRUE
             ELSE WalkEnds(Window(Low21(h)), fuel - 1)

\* What C5 says of a state of a linked-list transfer.
WalkedSoFar ==
    GpuList =>
        LET all == Walk(ListHead, MaxLog, MaxNodes)
        IN  /\ Len(gp0) <= Len(all)
            /\ gp0 = SubSeq(all, 1, Len(gp0))
            /\ gp0_lost => gp0 = all
            /\ (pc = "idle" /\ ~gp0_lost) =>
                   (gp0 = all /\ WalkEnds(ListHead, MaxNodes))

\* C5: a linked-list transfer forwards, node after node from base &
\* 0x1ffffc, the (h >> 24) words behind each header h, in increasing
\* address order, goes on at h & 0x1ffffc, and ends behind the packet of
\* the first node whose header has bit 23; no step of it writes RAM.
C5_ListWalk ==
    /\ []WalkedSoFar
    /\ [][ (pc \in ListStates) => ram' = ram ]_vars

\* The transfer over the node at 0x1ffff8, whose packet wraps to 0, returned.
C5_Witness ==
    /\ pc = "idle"
    /\ GpuList
    /\ ListHead = \H1ffff8
    /\ Len(gp0) = 2
    /\ gp0[2] = WordAt(0)

\* C6: a linked-list transfer over a chain of headers that reaches no header
\* with bit 23 never returns and never marks the channel done; over a chain
\* that reaches one it returns, with the channel done.
C6_ListTerminatesIffEndMarker ==
    /\ [][ (pc \in ListStates /\ ~WalkEnds(ListHead, MaxNodes))
            => (pc' \in ListStates /\ Started(StoredChannel')) ]_vars
    /\ [][ (pc \in ListStates /\ pc' = "idle") => WalkEnds(ListHead, MaxNodes) ]_vars
    /\ (pc \in ListStates /\ WalkEnds(ListHead, MaxNodes))
           ~> (pc = "idle" /\ GpuList /\ ~Started(StoredChannel))

\* A transfer over the node at 0x60, its own successor, has gone round often
\* enough to lose count of the words.
C6_Witness ==
    /\ pc \in ListStates
    /\ GpuList
    /\ ListHead = \H60
    /\ ~WalkEnds(ListHead, MaxNodes)
    /\ gp0_lost

\* C7: a word store to a register of channel c starts a transfer on c iff,
\* with the stored value in place, c is enabled and in manual mode with the
\* trigger, or in request mode, or in linked-list mode; a channel left
\* enabled in manual mode without the trigger starts none, the store
\* returns and the registers read back as stored.
C7_StartedIffActive ==
    [][ (nops' # nops /\ ChannelStore(last'))
        => LET p == StoredPort(last')
               ch == dma'.channels[p]
               old == dma.channels[p]
               minor == last'.addr[2] % 16
           IN  /\ (last'.dma # "none") <=> Started(ch)
               /\ (ch.enable /\ ch.sync = "Manual" /\ ~ch.trigger) =>
                      /\ pc' = "idle"
                      /\ last'.dma = "none"
                      /\ IF minor = 0 THEN ch.base = last'.val
                                      ELSE ch.base = old.base
                      /\ IF minor = 4 THEN block_control(ch) = last'.val
                                      ELSE block_control(ch) = block_control(old)
                      /\ IF minor = 8 THEN control(ch) = last'.val
                                      ELSE control(ch) = control(old) ]_vars

\* A control store left the OTC channel enabled, manual, untriggered.
C7_Witness ==
    /\ pc = "idle"
    /\ ChannelStore(last)
    /\ last.addr[2] % 16 = 8
    /\ last.dma = "none"
    /\ StoredChannel.enable
    /\ StoredChannel.sync = "Manual"
    /\ ~StoredChannel.trigger

\* The words the current operation's transfer has moved.
Moved == Len(gp0) + Len(ram_writes)

\* The pairs of port and direction do_dma_block implements.
Implemented(p, ch) ==
    \/ p = "Gpu" /\ ch.direction = "FromRam"
    \/ p = "Otc" /\ ch.direction = "ToRam"

BlockTransfer == ChannelStore(last) /\ last.dma = "block"

\* C8 as stated: every block transfer ends, not in a fatal condition, after
\* moving exactly N words.
C8_BlockAlwaysMovesN ==
    BlockTransfer =>
        /\ pc # "fatal"
        /\ pc = "idle" => Moved = BlockWordCount(StoredChannel)

\* What the amended C8 says of a state of a block transfer.
BlockMoves ==
    BlockTransfer =>
        LET ch == StoredChannel
            n == BlockWordCount(ch)
        IN  /\ ch.sync # "LinkedList"
            /\ ~gp0_lost
            /\ Moved <= n
            /\ pc = "idle" => (Moved = n /\ ~ch.enable /\ ~Started(ch))
            /\ pc = "fatal" =>
                   (~Implemented(StoredPort(last), ch) /\ n > 0 /\ Moved = 0)

\* C8, amended: a block transfer on GPU with direction from-RAM or on OTC
\* with direction to-RAM always ends after moving exactly N words (N =
\* block_size in manual, block_size * block_count in request mode); on any
\* other port and direction it is fatal at its first word when N > 0; when
\* N = 0, on every port, nothing is moved and the channel is marked done.
\* Block mode is never entered in linked-list mode.
C8_BlockMovesNOnImplementedPorts ==
    /\ []BlockMoves
    /\ (pc = "do_dma_block") ~> (pc \in {"idle", "fatal"})

\* A request-mode transfer of 1 * 0 words on the SPU port returned.
C8_Witness ==
    /\ pc = "idle"
    /\ BlockTransfer
    /\ StoredPort(last) = "Spu"
    /\ StoredChannel.sync = "Request"
    /\ StoredChannel.block_size = 1
    /\ BlockWordCount(StoredChannel) = 0

\* The region-masked address, as the pair of its halves: KSEG0 loses bit 31,
\* KSEG1 bits 31..29, KUSEG and KSEG2 nothing.
Masked(addr) ==
    LET region == addr[1] \div 8192
        hi == CASE region = 4 -> addr[1] % 32768
                [] region = 5 -> addr[1] % 8192
                [] OTHER -> addr[1]
    IN  <<hi, addr[2]>>

\* The peripheral ranges of the page at 0x1f800000: first offset and length.
PeripheralRanges == {
    <<\H1000, 36>>, <<\H1060, 4>>, <<\H1070, 8>>, <<\H1080, 128>>,
    <<\H1100, 48>>, <<\H1810, 8>>, <<\H1c00, 640>>, <<\H2000, 66>> }

\* The address lies in one of the twelve ranges of the memory map.
Listed(addr) ==
    LET m == Masked(addr)
    IN  \/ m[1] < \H0020                                   \* RAM, 2 MB
        \/ m[1] \in \H1f00..\H1f07                         \* expansion 1, 512 KB
        \/ m[1] \in \H1fc0..\H1fc7                         \* BIOS, 512 KB
        \/ /\ m[1] = \H1f80
           /\ \E r \in PeripheralRanges : m[2] \in r[1]..(r[1] + r[2] - 1)
        \/ m[1] = \Hfffe /\ m[2] \in \H0130..\H0133        \* cache control

\* C9: a load or a store of any width at an address whose region-masked
\* value lies in none of the twelve ranges is fatal, and leaves RAM, the DMA
\* registers and cache control as they were and hands nothing to gp0.
C9_UnmappedAccessFatal ==
    [][ (nops' # nops /\ ~Listed(last'.addr))
        => /\ pc' = "fatal"
           /\ last'.fatal
           /\ ram' = ram
           /\ dma' = dma
           /\ cache_control' = cache_control
           /\ gp0' = <<>>
           /\ ram_writes' = <<>> ]_vars

\* A halfword store to the KSEG0 mirror of the cache control address was
\* fatal, after a store that set the register.
C9_Witness ==
    /\ pc = "fatal"
    /\ last.op = "store"
    /\ last.width = "Halfword"
    /\ last.addr = <<\H9ffe, \H0130>>
    /\ cache_control = <<\H0001, \He988>>

\* Bit n of the low half of a word.
LowBit(w, n) == (w[2] \div (2 ^ n)) % 2 = 1

\* The operation is a store to the cache control register, of that width.
CacheStore(o, widths) ==
    /\ o.op = "store"
    /\ o.addr = <<\Hfffe, \H0130>>
    /\ o.width \in widths

\* C10: a byte or halfword store to the cache control address is fatal and
\* leaves the register as it was; a word store of v makes icache_enabled =
\* (v & 0x800 != 0) and tag_test_mode = (v & 0x4 != 0); every step that is
\* not a word store to the register leaves both flags as they were.
C10_CacheControlStore ==
    [][ /\ (nops' # nops /\ CacheStore(last', {"Byte", "Halfword"}))
            => (pc' = "fatal" /\ last'.fatal /\ cache_control' = cache_control)
        /\ (nops' # nops /\ CacheStore(last', {"Word"}))
            => /\ pc' = "idle"
               /\ icache_enabled(cache_control') = LowBit(last'.val, 11)
               /\ tag_test_mode(cache_control') = LowBit(last'.val, 2)
        /\ ~(nops' # nops /\ last'.op = "store" /\ last'.width = "Word"
             /\ last'.addr[1] = \Hfffe /\ last'.addr[2] \in \H0130..\H0133)
            => /\ icache_enabled(cache_control') = icache_enabled(cache_control)
               /\ tag_test_mode(cache_control') = tag_test_mode(cache_control)
      ]_vars

\* A word store of 0x0001e988 set the instruction cache flag and not the
\* tag test flag, and a load after it found them so.
C10_Witness ==
    /\ pc = "idle"
    /\ last.op = "load"
    /\ nops = 2
    /\ cache_control = <<\H0001, \He988>>
    /\ icache_enabled(cache_control)
    /\ ~tag_test_mode(cache_control)

\* The step is a bus operation, namely a word store at one of these addresses.
WordStoreAt(o, addrs) ==
    /\ o.op = "store"
    /\ o.width = "Word"
    /\ o.addr \in addrs

\* The addresses of the four bytes of the cache control range.  They lie in
\* KSEG2, whose addresses the region mask leaves as they are.
CacheControlBytes == {<<\Hfffe, lo>> : lo \in \H0130..\H0133}

\* C11 as stated: every step but a word store at the one address 0xfffe0130
\* leaves the cache control register as it was.
C11_OnlyWordStoreAtOneAddress ==
    [][ ~(nops' # nops /\ WordStoreAt(last', {<<\Hfffe, \H0130>>}))
        => cache_control' = cache_control ]_vars

\* C11, amended: the cache control register is changed only by a word store
\* at an address of its 4-byte range 0xfffe0130..0xfffe0133; every other
\* step (a load, a store elsewhere or of another width, a step of a DMA
\* transfer) leaves its value as it was.
C11_OnlyWordStoreInRange ==
    [][ ~(nops' # nops /\ WordStoreAt(last', CacheControlBytes))
        => cache_control' = cache_control ]_vars

\* After a word store set the register, a store ran a linked-list transfer
\* to its end and the register kept its value.
C11_Witness ==
    /\ pc = "idle"
    /\ last.dma = "linked_list"
    /\ Len(gp0) = 1
    /\ cache_control = <<\H0001, \He988>>

\* The call of fn has returned.
Returned(fn) == call.fn = fn /\ call.done

\* C12: mask_region is idempotent: mask_region(mask_region(a)) =
\* mask_region(a) for every address a.
C12_MaskRegionIdempotent ==
    Returned("mask_region") => mask_region(call.ret) = call.ret

\* mask_region(0xbffe0130) has returned 0x1ffe0130.
C12_Witness ==
    /\ Returned("mask_region")
    /\ call.arg = <<\Hbffe, \H0130>>
    /\ call.ret = <<\H1ffe, \H0130>>

\* v & (2^w - 1) for the width of w bits.
LowBits(width, v) ==
    CASE width = "Byte" -> <<0, v[2] % 256>>
      [] width = "Halfword" -> <<0, v[2] % 65536>>
      [] width = "Word" -> <<v[1] % 65536, v[2] % 65536>>

\* C14: for each access width, from_u32(as_u32(x)) = x for every value x of
\* that width, and as_u32(from_u32(v)) = v & (2^w - 1) for every 32-bit v.
C14_WidthRoundTrip ==
    /\ Returned("from_as") => call.ret = call.arg[2]
    /\ Returned("as_from") => call.ret = LowBits(call.arg[1], call.arg[2])

\* 0xfffe8130 was narrowed to a byte and widened again, to 0x00000030.
C14_Witness ==
    /\ Returned("as_from")
    /\ call.arg = <<"Byte", <<\Hfffe, \H8130>>>>
    /\ call.ret = <<\H0000, \H0030>>

\* a <= b for two words.
Le32(a, b) == a[1] < b[1] \/ (a[1] = b[1] /\ a[2] <= b[2])

\* base + len as a word, for a range that ends below 2^32.
RangeEnd(base, len) ==
    <<base[1] + (base[2] + len) \div 65536, (base[2] + len) % 65536>>

\* C15: for every range (base, len) of the map and every address a,
\* contains(a) is Some(a - base) exactly when base <= a < base + len, and
\* None otherwise: Some(0) at base, Some(len - 1) at base + len - 1, None at
\* base + len and at base - 1.
C15_ContainsIsOffsetInRange ==
    Returned("contains") =>
        LET r == RangeOf[call.arg[1]]
            a == call.arg[2]
            base == r.start
            inside == Le32(base, a) /\ ~Le32(RangeEnd(base, r.length), a)
        IN  /\ call.ret = IF inside
                          THEN {(a[1] - base[1]) * 65536 + a[2] - base[2]}
                          ELSE {}
            /\ a = base => call.ret = {0}
            /\ a = RangeEnd(base, r.length - 1) => call.ret = {r.length - 1}
            /\ a = RangeEnd(base, r.length) => call.ret = {}
            /\ (base # <<0, 0>> /\ RangeEnd(a, 1) = base) => call.ret = {}

\* SPU.contains(0x1f801e7f), the last address of the range, returned Some(639).
C15_Witness ==
    /\ Returned("contains")
    /\ call.arg = <<"SPU", <<\H1f80, \H1e7f>>>>
    /\ call.ret = {639}

\* C16: the twelve ranges do not overlap: a region-masked address is in at
\* most one of them, so the order in which load and store try the ranges
\* does not change the range that takes the address.
C16_RangesDisjoint ==
    Returned("dispatch") => Cardinality(call.ret) <= 1

\* 0xbf801100, where the DMA range ends and the timers begin, went to the
\* timers alone.
C16_Witness ==
    /\ Returned("dispatch")
    /\ call.arg = <<\Hbf80, \H1100>>
    /\ call.ret = {"TIMERS"}

\* The address is one of the three mirrors of an offset of low RAM.
IsRamMirror(addr) ==
    \/ addr[1] \in \H0000..\H001f
    \/ addr[1] \in \H8000..\H801f
    \/ addr[1] \in \Ha000..\Ha01f

\* The offset o of a mirror address o, 0x80000000 + o or 0xa0000000 + o.
MirrorOffset(addr) == (addr[1] % 32) * 65536 + addr[2]

\* The value of a width held by RAM at an offset, low byte first, as a
\* zero-extended word.
RamValue(mem, o, width) ==
    LET b(i) == IF o + i \in DOMAIN mem THEN mem[o + i] ELSE 0
    IN  CASE width = "Byte" -> <<0, b(0)>>
          [] width = "Halfword" -> <<0, b(1) * 256 + b(0)>>
          [] width = "Word" -> <<b(3) * 256 + b(2), b(1) * 256 + b(0)>>

\* C13: the three mirrors of low RAM are one memory: o, 0x80000000 + o and
\* 0xa0000000 + o all mask to o and go to RAM offset o; a store through any
\* of them puts its value at offset o, a load through any of them returns
\* the value at offset o and writes nothing, and so a load that follows a
\* store of the same offset and width, through whichever mirrors, returns
\* the value stored.
C13_RamMirrorsAreOneMemory ==
    [][ (nops' # nops /\ IsRamMirror(last'.addr))
        => LET o == MirrorOffset(last'.addr)
               w == last'.width
           IN  /\ mask_region(last'.addr) = U32(o)
               /\ pc' = "idle"
               /\ last'.op = "store" => RamValue(ram', o, w) = last'.val
               /\ last'.op = "load" =>
                      /\ ram' = ram
                      /\ last'.ret = RamValue(ram, o, w)
               /\ ( /\ last'.op = "load"
                    /\ last.op = "store"
                    /\ IsRamMirror(last.addr)
                    /\ MirrorOffset(last.addr) = o
                    /\ last.width = w )
                  => last'.ret = last.val ]_vars

\* A word load through the KSEG1 mirror of offset 0x10 returned 0x12345678,
\* which the image does not hold there: the store before it put it there.
C13_Witness ==
    /\ pc = "idle"
    /\ last.op = "load"
    /\ last.addr = <<\Ha000, \H0010>>
    /\ last.width = "Word"
    /\ last.ret = <<\H1234, \H5678>>
    /\ MemLoad(RamImage, "Word", 16) # <<\H1234, \H5678>>
    /\ nops = 2

\* The region-masked address lies in the DMA range 0x1f801080..0x1f8010ff.
InDmaRange(addr) ==
    /\ Masked(addr)[1] = \H1f80
    /\ Masked(addr)[2] \in \H1080..\H10ff

\* Bits 6:4 and bits 3:0 of the offset of an address of the DMA range.
Major(addr) == ((Masked(addr)[2] - \H1080) \div 16) % 8

Minor(addr) == (Masked(addr)[2] - \H1080) % 16

\* The access does not decode to a register: it is narrower than a word, or
\* bits 3:0 name no register of the channel or of the global block.
NoRegister(o) ==
    \/ o.width # "Word"
    \/ Major(o.addr) <= 6 /\ Minor(o.addr) \notin {0, 4, 8}
    \/ Major(o.addr) = 7 /\ Minor(o.addr) \notin {0, 4}

\* The register a word access decodes to, as it reads in a DMA state.
RegisterOf(d, addr) ==
    LET channel == d.channels[Port[Major(addr) + 1]]
    IN  IF Major(addr) <= 6
        THEN CASE Minor(addr) = 0 -> channel.base
               [] Minor(addr) = 4 -> block_control(channel)
               [] Minor(addr) = 8 -> control(channel)
        ELSE CASE Minor(addr) = 0 -> d.control
               [] Minor(addr) = 4 -> d.interrupt

\* C17: in the DMA range bits 6:4 of the offset select the channel or the
\* global block and bits 3:0 the register.  Every byte or halfword access is
\* fatal, and so is a word access whose bits 3:0 are not 0x0, 0x4 or 0x8
\* for a channel or not 0x0 or 0x4 for the global block; a fatal store of
\* these has changed no DMA register and started no transfer.  A word load
\* of a register returns the register so selected.
C17_DmaRegisterDecode ==
    [][ (nops' # nops /\ InDmaRange(last'.addr))
        => /\ NoRegister(last') =>
                  /\ pc' = "fatal"
                  /\ last'.fatal
                  /\ dma' = dma
                  /\ last'.dma = "none"
                  /\ xfer' = xfer
                  /\ ram' = ram
                  /\ gp0' = <<>>
           /\ (~NoRegister(last') /\ last'.op = "load") =>
                  /\ pc' = "idle"
                  /\ dma' = dma
                  /\ last'.ret = RegisterOf(dma, last'.addr) ]_vars

\* A word store at 0x1f8010ac, where channel 2 has no register, was fatal
\* and left the base register an earlier store had set.
C17_Witness ==
    /\ pc = "fatal"
    /\ last.op = "store"
    /\ last.width = "Word"
    /\ last.addr = <<\H1f80, \H10ac>>
    /\ dma.channels["Gpu"].base = <<\H0000, \H0010>>

\* C18: a linked-list transfer that becomes active on a port other than GPU,
\* or with direction to-RAM, is fatal before any header is read: the store
\* that made the channel active ends fatal, with no word handed to gp0, RAM
\* as it was and no node of the list visited.
C18_ListOnOtherPortOrToRamFatal ==
    [][ (nops' # nops /\ ChannelStore(last'))
        => LET p == StoredPort(last')
               ch == dma'.channels[p]
           IN  ( /\ Started(ch)
                 /\ ch.sync = "LinkedList"
                 /\ (p # "Gpu" \/ ch.direction = "ToRam") )
               => /\ pc' = "fatal"
                  /\ last'.fatal
                  /\ gp0' = <<>>
                  /\ ~gp0_lost'
                  /\ ram' = ram
                  /\ ram_writes' = <<>>
                  /\ xfer' = xfer ]_vars

\* A store left the OTC channel active in linked-list mode, from RAM, and
\* was fatal.
C18_Witness ==
    /\ pc = "fatal"
    /\ ChannelStore(last)
    /\ StoredPort(last) = "Otc"
    /\ StoredChannel.sync = "LinkedList"
    /\ StoredChannel.direction = "FromRam"
    /\ Started(StoredChannel)
    /\ gp0 = <<>>

\* A block transfer on a pair of port and direction that is not implemented.
OtherBlockTransfer ==
    /\ BlockTransfer
    /\ ~Implemented(StoredPort(last), StoredChannel)

\* C19 as stated: a block transfer from RAM on a port other than GPU, or to
\* RAM on a port other than OTC, is fatal for every programmed size: it
\* never returns, and it moves no word.
C19_OtherBlockFatalForEverySize ==
    OtherBlockTransfer => (pc # "idle" /\ Moved = 0)

\* C19, amended: a block transfer of N > 0 words from RAM on a port other
\* than GPU, or to RAM on a port other than OTC, is fatal, for every base:
\* it never returns, it hands no word to gp0 and writes none to RAM, and it
\* ends in the fatal condition.
C19_OtherBlockFatalWhenNotEmpty ==
    /\ [](( OtherBlockTransfer /\ BlockWordCount(StoredChannel) > 0 )
            => (pc # "idle" /\ Moved = 0))
    /\ [][ ( /\ pc = "do_dma_block"
             /\ OtherBlockTransfer
             /\ BlockWordCount(StoredChannel) > 0 )
           => (pc' = "fatal" /\ ram' = ram /\ gp0' = gp0) ]_vars
    /\ ( OtherBlockTransfer /\ BlockWordCount(StoredChannel) > 0 )
           ~> (pc = "fatal" /\ last.fatal /\ Moved = 0)

\* A request-mode transfer of 2 * 2 words to RAM on the GPU port was fatal.
C19_Witness ==
    /\ pc = "fatal"
    /\ BlockTransfer
    /\ StoredPort(last) = "Gpu"
    /\ StoredChannel.direction = "ToRam"
    /\ StoredChannel.sync = "Request"
    /\ BlockWordCount(StoredChannel) = 4
    /\ Moved = 0

\* The region-masked address lies in the memory control range
\* 0x1f801000..0x1f801023.
InMemControl(addr) ==
    /\ Masked(addr)[1] = \H1f80
    /\ Masked(addr)[2] \in \H1000..\H1023

\* The store is to offset 0 with a value other than 0x1f000000 or to offset
\* 4 with a value other than 0x1f802000.
BadExpansionBase(o) ==
    LET offset == Masked(o.addr)[2] - \H1000
    IN  \/ offset = 0 /\ o.val # <<\H1f00, \H0000>>
        \/ offset = 4 /\ o.val # <<\H1f80, \H2000>>

\* C20: a store at memory control offset 0 is fatal unless its value,
\* zero-extended, is 0x1f000000, and at offset 4 unless it is 0x1f802000; a
\* store of the right value and a store at any other offset of the range
\* returns; none of them changes RAM, the DMA registers or cache control or
\* hands a word to gp0.
C20_MemControlStore ==
    [][ (nops' # nops /\ last'.op = "store" /\ InMemControl(last'.addr))
        => /\ BadExpansionBase(last') => (pc' = "fatal" /\ last'.fatal)
           /\ ~BadExpansionBase(last') => (pc' = "idle" /\ ~last'.fatal)
           /\ ram' = ram
           /\ bios' = bios
           /\ dma' = dma
           /\ cache_control' = cache_control
           /\ gp0' = <<>>
           /\ last'.dma = "none" ]_vars

\* A word store of 0x1f802000 through the KSEG0 mirror of offset 4 returned.
C20_Witness ==
    /\ pc = "idle"
    /\ last.op = "store"
    /\ last.addr = <<\H9f80, \H1004>>
    /\ last.width = "Word"
    /\ last.val = <<\H1f80, \H2000>>
    /\ ~last.fatal

\* The region-masked address lies in the range of the page at 0x1f800000
\* that begins at the lower half `first` and has `len` bytes.
InPeripheral(addr, first, len) ==
    /\ Masked(addr)[1] = \H1f80
    /\ Masked(addr)[2] \in first..(first + len - 1)

InIrqControl(addr) == InPeripheral(addr, \H1070, 8)

InTimers(addr) == InPeripheral(addr, \H1100, 48)

InSpu(addr) == InPeripheral(addr, \H1c00, 640)

InRamSize(addr) == InPeripheral(addr, \H1060, 4)

InExpansion2(addr) == InPeripheral(addr, \H2000, 66)

InExpansion1(addr) == Masked(addr)[1] \in \H1f00..\H1f07

InBios(addr) == Masked(addr)[1] \in \H1fc0..\H1fc7

InCacheControl(addr) == addr \in CacheControlBytes

\* The all-ones value of a width, as a zero-extended word.
AllOnes(width) ==
    CASE width = "Byte" -> <<\H0000, \H00ff>>
      [] width = "Halfword" -> <<\H0000, \Hffff>>
      [] width = "Word" -> <<\Hffff, \Hffff>>

\* C21: a load of any width from an address of IRQ control, the timers or
\* the SPU returns 0, and from expansion 1 the all-ones value of the width
\* (0xff, 0xffff, 0xffffffff); none of these loads is fatal.
C21_StubLoads ==
    [][ (nops' # nops /\ last'.op = "load")
        => /\ ( InIrqControl(last'.addr) \/ InTimers(last'.addr) \/ InSpu(last'.addr) )
                  => (pc' = "idle" /\ ~last'.fatal /\ last'.ret = <<0, 0>>)
           /\ InExpansion1(last'.addr)
                  => (pc' = "idle" /\ ~last'.fatal /\ last'.ret = AllOnes(last'.width))
      ]_vars

\* A halfword load from the last address of expansion 1 returned 0xffff.
C21_Witness ==
    /\ pc = "idle"
    /\ last.op = "load"
    /\ last.addr = <<\H1f07, \Hffff>>
    /\ last.width = "Halfword"
    /\ last.ret = <<\H0000, \Hffff>>

\* C22: a store of any width and value at an address of IRQ control, the
\* timers, the SPU, the RAM size register or expansion 2 returns and leaves
\* RAM, every channel and global register of the DMA and cache control as
\* they were, starts no transfer and hands nothing to gp0.
C22_StubStores ==
    [][ ( /\ nops' # nops
          /\ last'.op = "store"
          /\ \/ InIrqControl(last'.addr)
             \/ InTimers(last'.addr)
             \/ InSpu(last'.addr)
             \/ InRamSize(last'.addr)
             \/ InExpansion2(last'.addr) )
        => /\ pc' = "idle"
           /\ ~last'.fatal
           /\ ram' = ram
           /\ dma' = dma
           /\ cache_control' = cache_control
           /\ last'.dma = "none"
           /\ xfer' = xfer
           /\ gp0' = <<>>
           /\ ram_writes' = <<>> ]_vars

\* A byte store at the last address of expansion 2 returned, after a store
\* that had set cache control.
C22_Witness ==
    /\ pc = "idle"
    /\ last.op = "store"
    /\ last.addr = <<\H1f80, \H2041>>
    /\ last.width = "Byte"
    /\ cache_control = <<\Hfffe, \H8130>>

\* C25: the ranges routed in one direction only are fatal in the other: a
\* store of any width at a BIOS or expansion 1 address is fatal, so the BIOS
\* never changes, and a load of any width from a cache control, memory
\* control, RAM size or expansion 2 address is fatal; each of these
\* addresses lies in one of the twelve ranges.
C25_OneWayRanges ==
    /\ [](bios = BiosImage)
    /\ [][ (nops' # nops)
           => /\ ( /\ last'.op = "store"
                   /\ (InBios(last'.addr) \/ InExpansion1(last'.addr)) )
                 => (pc' = "fatal" /\ last'.fatal /\ Listed(last'.addr))
              /\ ( /\ last'.op = "load"
                   /\ \/ InCacheControl(last'.addr)
                      \/ InMemControl(last'.addr)
                      \/ InRamSize(last'.addr)
                      \/ InExpansion2(last'.addr) )
                 => (pc' = "fatal" /\ last'.fatal /\ Listed(last'.addr)) ]_vars

\* A word load from the RAM size register was fatal.
C25_Witness ==
    /\ pc = "fatal"
    /\ last.op = "load"
    /\ last.addr = <<\H1f80, \H1060>>
    /\ last.width = "Word"
    /\ last.fatal

\* The operation is a word access of the global DMA register at bits 3:0 =
\* minor: the control register (0) at 0x1f8010f0 or the interrupt register
\* (4) at 0x1f8010f4.
GlobalAccess(o, op, minor) ==
    /\ o.op = op
    /\ o.width = "Word"
    /\ InDmaRange(o.addr)
    /\ Major(o.addr) = 7
    /\ Minor(o.addr) = minor

\* C23: the two global DMA registers are storage: a word store of v to the
\* control or to the interrupt register changes that register to v and
\* nothing else, starts no transfer and returns; a word load returns the
\* register; no other step changes either register, so a load returns v
\* until the register is stored again.
C23_GlobalDmaRegistersAreStorage ==
    [][ /\ (nops' # nops /\ GlobalAccess(last', "store", 0))
            => /\ dma' = [dma EXCEPT !.control = last'.val]
               /\ pc' = "idle" /\ last'.dma = "none" /\ xfer' = xfer
               /\ ram' = ram /\ cache_control' = cache_control /\ gp0' = <<>>
        /\ (nops' # nops /\ GlobalAccess(last', "store", 4))
            => /\ dma' = [dma EXCEPT !.interrupt = last'.val]
               /\ pc' = "idle" /\ last'.dma = "none" /\ xfer' = xfer
               /\ ram' = ram /\ cache_control' = cache_control /\ gp0' = <<>>
        /\ (nops' # nops /\ GlobalAccess(last', "load", 0))
            => (pc' = "idle" /\ last'.ret = dma.control /\ dma' = dma)
        /\ (nops' # nops /\ GlobalAccess(last', "load", 4))
            => (pc' = "idle" /\ last'.ret = dma.interrupt /\ dma' = dma)
        /\ ~(nops' # nops /\ GlobalAccess(last', "store", 0))
            => dma'.control = dma.control
        /\ ~(nops' # nops /\ GlobalAccess(last', "store", 4))
            => dma'.interrupt = dma.interrupt
        /\ \A minor \in {0, 4} :
              ( /\ nops' # nops
                /\ GlobalAccess(last, "store", minor)
                /\ GlobalAccess(last', "load", minor) )
              => last'.ret = last.val
      ]_vars

\* A word load of the interrupt register returned the 0x07654321 stored
\* there, and the control register still holds 0.
C23_Witness ==
    /\ pc = "idle"
    /\ GlobalAccess(last, "load", 4)
    /\ last.ret = <<\H0765, \H4321>>
    /\ dma.interrupt = <<\H0765, \H4321>>
    /\ dma.control = <<0, 0>>

\* The region-masked address lies in the GPU range 0x1f801810..0x1f801817,
\* whose loads the video subsystem answers.
InGpu(addr) == InPeripheral(addr, \H1810, 8)

\* C24: a load of any width at any address, whether it returns or is fatal,
\* leaves RAM, the BIOS, every DMA register and cache control as they were,
\* starts no transfer and hands nothing to gp0; a load that follows a load
\* of the same address and width returns the same value, outside the GPU
\* range.
C24_LoadsHaveNoEffect ==
    [][ (nops' # nops /\ last'.op = "load")
        => /\ ram' = ram
           /\ bios' = bios
           /\ dma' = dma
           /\ cache_control' = cache_control
           /\ pc' \in {"idle", "fatal"}
           /\ last'.dma = "none"
           /\ xfer' = xfer
           /\ gp0' = <<>>
           /\ ram_writes' = <<>>
           /\ ( /\ last.op = "load"
                /\ last.addr = last'.addr
                /\ last.width = last'.width
                /\ ~InGpu(last.addr) )
              => (pc' = "idle" /\ last'.ret = last.ret) ]_vars

\* The second operation of a run, a halfword load of the first BIOS
\* address, returned the 0x0013 of the image, with cache control untouched.
C24_Witness ==
    /\ pc = "idle"
    /\ nops = 2
    /\ last.op = "load"
    /\ last.addr = <<\H1fc0, \H0000>>
    /\ last.width = "Halfword"
    /\ last.ret = <<\H0000, \H0013>>
    /\ cache_control = <<0, 0>>

\* The vertices of the commands of a queue.
RECURSIVE QueuedVertices(_)
QueuedVertices(queue) ==
    IF queue = <<>> THEN 0 ELSE Head(queue)[2] + QueuedVertices(Tail(queue))

\* The methods that end with the pending primitives drawn.
Flushing == {"fill_rect", "set_draw_offset", "set_drawing_area", "draw", "display"}

\* C26: nvertices is the sum of the vertex counts of the queued commands and
\* of current_command and never exceeds VERTEX_BUFFER_LEN; every queued
\* command has a non-zero count and neighbours in the queue differ in
\* primitive type; once draw has returned, called on its own or last in
\* another method, nvertices is 0, the queue is empty and current_command is
\* (TrianglesList, 0).
C26_BufferInvariant ==
    LET queue == renderer.command_queue
    IN  /\ renderer.nvertices = QueuedVertices(queue) + renderer.current_command[2]
        /\ renderer.nvertices <= VERTEX_BUFFER_LEN
        /\ \A i \in 1..Len(queue) : queue[i][2] > 0
        /\ \A i \in 1..(Len(queue) - 1) : queue[i][1] # queue[i + 1][1]
        /\ renderer.last_call \in Flushing =>
               /\ renderer.nvertices = 0
               /\ queue = <<>>
               /\ renderer.current_command = <<"TrianglesList", 0>>

\* A full buffer was drawn by a push_triangle, a line followed, and a draw
\* emptied the buffer again.
C26_Witness ==
    /\ renderer.last_call = "draw"
    /\ renderer.handed = 3 * 21845 + 3 + 2
    /\ Len(renderer.fb_out) = 3
    /\ renderer.fb_out[1].n = 3 * 21845
    /\ renderer.fb_out[3].primitive = "LinesList"

\* A list of primitives with every run made one entry.
RECURSIVE Runs(_)
Runs(list) ==
    IF list = <<>> THEN <<>>
    ELSE Join(Runs(SubSeq(list, 1, Len(list) - 1)), list[Len(list)])

\* The vertices of a list of primitives.
RECURSIVE ListedVertices(_)
ListedVertices(list) ==
    IF list = <<>> THEN 0 ELSE Head(list).n + ListedVertices(Tail(list))

\* The vertices of list a are the first vertices of list b, primitive by
\* primitive with the same type, offset and scissor.
FirstOf(a, b) ==
    /\ Len(a) <= Len(b)
    /\ \A i \in 1..(Len(a) - 1) : a[i] = b[i]
    /\ a # <<>> =>
           /\ [a[Len(a)] EXCEPT !.n = 0] = [b[Len(a)] EXCEPT !.n = 0]
           /\ a[Len(a)].n <= b[Len(a)].n

\* C27: what was drawn is at every moment the first part of what was pushed,
\* in push order and under the offset and the scissor of the push, and the
\* rest is what the buffer holds; fill_rect, set_draw_offset,
\* set_drawing_area, draw and display leave nothing undrawn.
C27_FlushOrdering ==
    LET drawn == Runs(renderer.fb_out)
    IN  /\ FirstOf(drawn, renderer.pushed)
        /\ ListedVertices(renderer.pushed) - ListedVertices(drawn) = renderer.nvertices
        /\ renderer.last_call \in Flushing => drawn = renderer.pushed

\* Primitives pushed under the offset (16, -8) were drawn under it by the
\* set_draw_offset that set the offset back to (0, 0).
C27_Witness ==
    /\ renderer.last_call = "set_draw_offset"
    /\ renderer.offset = <<0, 0>>
    /\ renderer.calls = 3
    /\ renderer.fb_out # <<>>
    /\ renderer.fb_out[Len(renderer.fb_out)].offset = <<16, -8>>
    /\ renderer.fb_out[Len(renderer.fb_out)].id + 2 = renderer.handed

\* The last draws of fb_out are the two triangles of a quad made of the last
\* four vertices, drawn without scissor under the offset (0, 0).
RectDrawn ==
    LET n == Len(renderer.fb_out)
        Triangle(id) == [primitive |-> "TrianglesList", id |-> id, n |-> 3,
                         offset |-> <<0, 0>>, scissor |-> {}]
    IN  /\ n >= 2
        /\ renderer.fb_out[n - 1] = Triangle(renderer.handed - 4)
        /\ renderer.fb_out[n] = Triangle(renderer.handed - 3)

\* C28: fill_rect draws its rectangle with the scissor disabled and the
\* offset (0, 0) and leaves no primitive pending; the scissor and self.offset
\* are after the call what they were before it, and the offset uniform is
\* self.offset whenever no fill_rect is under way.
C28_FillRectRestores ==
    /\ [](renderer.command_uniforms.offset = renderer.offset)
    /\ [](renderer.last_call = "fill_rect" =>
              /\ RectDrawn
              /\ renderer.nvertices = 0
              /\ renderer.command_queue = <<>>)
    /\ [][(renderer'.last_call = "fill_rect" /\ renderer'.calls # renderer.calls) =>
              /\ renderer'.command_params.scissor = renderer.command_params.scissor
              /\ renderer'.offset = renderer.offset]_vars

\* fill_rect has returned with a drawing area and a draw offset set before it.
C28_Witness ==
    /\ renderer.last_call = "fill_rect"
    /\ renderer.command_params.scissor = {Rect(64, 272, 256, 208)}
    /\ renderer.offset = <<16, -8>>
    /\ renderer.command_uniforms.offset = <<16, -8>>
    /\ RectDrawn

====
